---- MODULE Spec2Model ----
(***************************************************************************)
(* Model of public/chat.js: the SSE event framer consumeSseEvents, the     *)
(* per-event delta extraction appendChunkFromSseData, and the request /    *)
(* response cycle of the async function sendMessage.                       *)
(*                                                                         *)
(* A JavaScript string is the sequence of its UTF-16 code units (integers  *)
(* 0..65535, indexed from 1).  The response body is a sequence of bytes,   *)
(* which the streaming TextDecoder of the read loop decodes as UTF-8.      *)
(***************************************************************************)
EXTENDS Integers, Sequences, FiniteSets, TLC

(***************************************************************************)
(* Writing strings: Str("ab") is the JavaScript string "ab".               *)
(***************************************************************************)

\* The characters with codes 32..95 and 97..126, in code order (a module
\* string cannot hold the character with code 96).
AsciiLow == " !\"#$%&'()*+,-./0123456789:;<=>?@ABCDEFGHIJKLMNOPQRSTUVWXYZ[\\]^_"
AsciiHigh == "abcdefghijklmnopqrstuvwxyz{|}~"

\* The code of a character a module string can hold.
CodeOfChar(c) ==
    IF \E i \in 1..Len(AsciiLow) : SubSeq(AsciiLow, i, i) = c
    THEN 31 + (CHOOSE i \in 1..Len(AsciiLow) : SubSeq(AsciiLow, i, i) = c)
    ELSE IF \E i \in 1..Len(AsciiHigh) : SubSeq(AsciiHigh, i, i) = c
    THEN 96 + (CHOOSE i \in 1..Len(AsciiHigh) : SubSeq(AsciiHigh, i, i) = c)
    ELSE IF c = "\t" THEN 9
    ELSE IF c = "\n" THEN 10
    ELSE IF c = "\f" THEN 12
    ELSE 13

Str(lit) == SubSeq([i \in 1..Len(lit) |-> CodeOfChar(SubSeq(lit, i, i))], 1, Len(lit))

Quote == CodeOfChar("\"")
Backslash == CodeOfChar("\\")
Slash == CodeOfChar("/")
LeftBrace == CodeOfChar("{")
RightBrace == CodeOfChar("}")
LeftBracket == CodeOfChar("[")
RightBracket == CodeOfChar("]")
Comma == CodeOfChar(",")
Colon == CodeOfChar(":")
Minus == CodeOfChar("-")
Plus == CodeOfChar("+")
Dot == CodeOfChar(".")
Zero == CodeOfChar("0")
Nine == CodeOfChar("9")
LowerE == CodeOfChar("e")
UpperE == CodeOfChar("E")
Space == CodeOfChar(" ")
Lf == Str("\n")
Cr == Str("\r")
BlankLine == Str("\n\n")

(***************************************************************************)
(* String primitives of the JavaScript runtime used by chat.js.            *)
(***************************************************************************)

\* s.charCodeAt(i - 1) for a 1-based index i (-1 outside the string).
CodeAt(s, i) == IF i >= 1 /\ i <= Len(s) THEN s[i] ELSE -1

\* String.fromCharCode(c)
CharOfCode(c) == <<c>>

\* s.slice(i) for a 0-based index i >= 0.
SliceFrom(s, i) == SubSeq(s, i + 1, Len(s))

\* s.slice(0, j) for a 0-based index j >= 0.
SliceTo(s, j) == SubSeq(s, 1, j)

\* s.startsWith(p)
StartsWith(s, p) == Len(s) >= Len(p) /\ SubSeq(s, 1, Len(p)) = p

\* Whether p occurs in s at the 1-based position i.
OccursAt(s, i, p) == i >= 1 /\ i + Len(p) - 1 <= Len(s) /\ SubSeq(s, i, i + Len(p) - 1) = p

\* The least element of a set of integers, or -1 for the empty set.
MinOrMinusOne(S) == IF S = {} THEN -1 ELSE CHOOSE i \in S : \A j \in S : i <= j

\* s.indexOf(p): the 0-based index of the first occurrence of p, or -1.
IndexOf(s, p) ==
    MinOrMinusOne({i \in 0..(Len(s) - Len(p)) : SubSeq(s, i + 1, i + Len(p)) = p})

\* s.replace(/c/g, r) for a single character c; i is s.indexOf(c).
RECURSIVE ReplaceAll(_, _, _)
ReplaceFrom(s, c, r, i) ==
    IF i = -1 THEN s
    ELSE SliceTo(s, i) \o r \o ReplaceAll(SliceFrom(s, i + 1), c, r)
ReplaceAll(s, c, r) == ReplaceFrom(s, c, r, IndexOf(s, c))

\* s.split(sep) for a non-empty separator: always at least one piece; i is
\* s.indexOf(sep).
RECURSIVE Split(_, _)
SplitFrom(s, sep, i) ==
    IF i = -1 THEN <<s>>
    ELSE <<SliceTo(s, i)>> \o Split(SliceFrom(s, i + Len(sep)), sep)
Split(s, sep) == SplitFrom(s, sep, IndexOf(s, sep))

\* parts.join(sep)
RECURSIVE Join(_, _)
Join(parts, sep) ==
    IF Len(parts) = 0 THEN <<>>
    ELSE IF Len(parts) = 1 THEN parts[1]
    ELSE parts[1] \o sep \o Join(SubSeq(parts, 2, Len(parts)), sep)

\* The code units that String.prototype.trim / trimStart remove: WhiteSpace
\* (TAB, VT, FF, SP, NBSP, ZWNBSP and the space separators of Unicode) and
\* LineTerminator (LF, CR, LS, PS) of ECMAScript.
IsJsSpace(c) ==
    \/ c \in {9, 10, 11, 12, 13, 32, 160, 5760, 8232, 8233, 8239, 8287, 12288, 65279}
    \/ (c >= 8192 /\ c <= 8202)

\* s.trimStart()
RECURSIVE TrimStart(_)
TrimStart(s) ==
    IF Len(s) > 0 /\ IsJsSpace(s[1]) THEN TrimStart(SliceFrom(s, 1)) ELSE s

\* s.trimEnd()
RECURSIVE TrimEnd(_)
TrimEnd(s) ==
    IF Len(s) > 0 /\ IsJsSpace(s[Len(s)])
    THEN TrimEnd(SliceTo(s, Len(s) - 1)) ELSE s

\* s.trim()
Trim(s) == TrimEnd(TrimStart(s))

(***************************************************************************)
(* consumeSseEvents (chat.js 232-251).                                     *)
(***************************************************************************)

\* The prefix a line must carry to contribute to an event.
DataPrefix == Str("data:")

\* Lines 241-246: the data lines of one raw event block, prefix stripped and
\* left-trimmed, in order.
RECURSIVE DataLines(_)
DataLine(line, rest) ==
    IF StartsWith(line, DataPrefix)
    THEN <<TrimStart(SliceFrom(line, Len(DataPrefix)))>> \o rest
    ELSE rest
DataLines(lines) ==
    IF Len(lines) = 0 THEN <<>>
    ELSE DataLine(lines[1], DataLines(SubSeq(lines, 2, Len(lines))))

\* Lines 247-248 pushing every data line as an event of its own.
WithEventPerLine(events, dataLines) == events \o dataLines
\* Lines 247-248: the events after one raw event block gave dataLines.
WithEvent(events, dataLines) ==
    IF Len(dataLines) = 0 THEN events ELSE Append(events, Join(dataLines, Lf))

\* Lines 236-249: the loop over blank-line separators of the normalized
\* text; eventEndIndex is normalized.indexOf("\n\n").
RECURSIVE FrameLoop(_, _)
\* FrameStep with `break` in place of `continue` at line 247.
FrameStepStopsAtNoData(normalized, events, eventEndIndex) ==
    IF eventEndIndex = -1
    THEN [events |-> events, buffer |-> normalized]
    ELSE IF Len(DataLines(Split(SliceTo(normalized, eventEndIndex), Lf))) = 0
    THEN [events |-> events, buffer |-> SliceFrom(normalized, eventEndIndex + 2)]
    ELSE FrameLoop(SliceFrom(normalized, eventEndIndex + 2),
                   WithEvent(events,
                             DataLines(Split(SliceTo(normalized, eventEndIndex), Lf))))
\* FrameStep with the remainder right-trimmed before it is returned.
FrameStepTrimsRemainder(normalized, events, eventEndIndex) ==
    IF eventEndIndex = -1
    THEN [events |-> events, buffer |-> TrimEnd(normalized)]
    ELSE FrameLoop(SliceFrom(normalized, eventEndIndex + 2),
                   WithEvent(events,
                             DataLines(Split(SliceTo(normalized, eventEndIndex), Lf))))
FrameStep(normalized, events, eventEndIndex) ==
    IF eventEndIndex = -1
    THEN [events |-> events, buffer |-> normalized]
    ELSE FrameLoop(SliceFrom(normalized, eventEndIndex + 2),
                   WithEvent(events,
                             DataLines(Split(SliceTo(normalized, eventEndIndex), Lf))))
FrameLoop(normalized, events) == FrameStep(normalized, events, IndexOf(normalized, BlankLine))

\* consumeSseEvents without line 233.
consumeSseEventsKeepsCr(buffer) == FrameLoop(buffer, <<>>)
\* consumeSseEvents returning its argument in place of `normalized`.
consumeSseEventsReturnsInput(buffer) ==
    [events |-> FrameLoop(ReplaceAll(buffer, Cr, <<>>), <<>>).events, buffer |-> buffer]
\* consumeSseEvents(buffer): carriage returns stripped, then the loop.
consumeSseEvents(buffer) == FrameLoop(ReplaceAll(buffer, Cr, <<>>), <<>>)

(***************************************************************************)
(* JSON.parse and the JavaScript values it yields.  A value is a record    *)
(* [t, s, a]: t the type tag; s the text of a string, the lexeme of a      *)
(* number (which denotes the double nearest to it), the text of a boolean; *)
(* a the elements of an array or the members [k, v] of an object in source *)
(* order.                                                                  *)
(***************************************************************************)

Undefined == [t |-> "undefined", s |-> <<>>, a |-> <<>>]
JsNull == [t |-> "null", s |-> <<>>, a |-> <<>>]
JsBool(b) == [t |-> "bool", s |-> b, a |-> <<>>]
JsNum(lexeme) == [t |-> "num", s |-> lexeme, a |-> <<>>]
JsStr(text) == [t |-> "str", s |-> text, a |-> <<>>]
JsArr(elems) == [t |-> "arr", s |-> <<>>, a |-> elems]
JsObj(members) == [t |-> "obj", s |-> <<>>, a |-> members]

TrueText == Str("true")
FalseText == Str("false")
NullText == Str("null")

\* The result of a failed parse (JSON.parse throws SyntaxError).
ParseFail == [ok |-> FALSE, v |-> Undefined, p |-> 0]
ParseOk(v, p) == [ok |-> TRUE, v |-> v, p |-> p]

\* Space, tab, line feed, carriage return.
JsonWhitespace == {32, 9, 10, 13}
IsDigit(c) == c >= Zero /\ c <= Nine

RECURSIVE SkipWs(_, _)
SkipWs(s, i) == IF CodeAt(s, i) \in JsonWhitespace THEN SkipWs(s, i + 1) ELSE i

RECURSIVE SkipDigits(_, _)
SkipDigits(s, i) == IF IsDigit(CodeAt(s, i)) THEN SkipDigits(s, i + 1) ELSE i

\* The value of one hexadecimal digit (0-9, a-f, A-F), or -1.
HexVal(c) ==
    IF IsDigit(c) THEN c - Zero
    ELSE IF c >= CodeOfChar("a") /\ c <= CodeOfChar("f") THEN c - CodeOfChar("a") + 10
    ELSE IF c >= CodeOfChar("A") /\ c <= CodeOfChar("F") THEN c - CodeOfChar("A") + 10
    ELSE -1

\* The code unit of four hexadecimal digit values, or -1.
CodeUnit(h1, h2, h3, h4) ==
    IF h1 < 0 \/ h2 < 0 \/ h3 < 0 \/ h4 < 0 THEN -1
    ELSE 4096 * h1 + 256 * h2 + 16 * h3 + h4

\* JSON number, from position i:
\*   -? (0 | [1-9][0-9]*) (. [0-9]+)? ([eE] [+-]? [0-9]+)?
\* j0 follows the sign, j1 the integer part, j2 the fraction, j3 the exponent.
NumberEnd(s, i, j3s, j3) ==
    IF j3 > j3s THEN ParseOk(JsNum(SubSeq(s, i, j3 - 1)), j3) ELSE ParseFail
NumberExponent(s, i, j3s) == NumberEnd(s, i, j3s, SkipDigits(s, j3s))
NumberAfterFraction(s, i, j2) ==
    IF CodeAt(s, j2) \in {LowerE, UpperE}
    THEN NumberExponent(s, i, IF CodeAt(s, j2 + 1) \in {Plus, Minus} THEN j2 + 2 ELSE j2 + 1)
    ELSE ParseOk(JsNum(SubSeq(s, i, j2 - 1)), j2)
NumberFraction(s, i, j1, j2) ==
    IF j2 > j1 + 1 THEN NumberAfterFraction(s, i, j2) ELSE ParseFail
NumberAfterInteger(s, i, j1) ==
    IF CodeAt(s, j1) = Dot
    THEN NumberFraction(s, i, j1, SkipDigits(s, j1 + 1))
    ELSE NumberAfterFraction(s, i, j1)
NumberInteger(s, i, j0) ==
    IF ~IsDigit(CodeAt(s, j0)) THEN ParseFail
    ELSE NumberAfterInteger(s, i, IF CodeAt(s, j0) = Zero THEN j0 + 1 ELSE SkipDigits(s, j0))
ParseNumber(s, i) == NumberInteger(s, i, IF CodeAt(s, i) = Minus THEN i + 1 ELSE i)

\* JSON string, from the character after the opening quote: c is the code
\* unit at i, e the one after it, code the code unit of a \u escape.  A
\* control character (below U+0020) cannot stand in a string.
RECURSIVE ParseStringBody(_, _, _)
StringUnicode(s, i, acc, code) ==
    IF code < 0 THEN ParseFail
    ELSE ParseStringBody(s, i + 6, acc \o CharOfCode(code))
StringEscape(s, i, acc, e) ==
    CASE e \in {Quote, Backslash, Slash} -> ParseStringBody(s, i + 2, acc \o CharOfCode(e))
      [] e = CodeOfChar("n") -> ParseStringBody(s, i + 2, acc \o CharOfCode(10))
      [] e = CodeOfChar("r") -> ParseStringBody(s, i + 2, acc \o CharOfCode(13))
      [] e = CodeOfChar("t") -> ParseStringBody(s, i + 2, acc \o CharOfCode(9))
      [] e = CodeOfChar("f") -> ParseStringBody(s, i + 2, acc \o CharOfCode(12))
      [] e = CodeOfChar("b") -> ParseStringBody(s, i + 2, acc \o CharOfCode(8))
      [] e = CodeOfChar("u") ->
             StringUnicode(s, i, acc,
                 CodeUnit(HexVal(CodeAt(s, i + 2)), HexVal(CodeAt(s, i + 3)),
                          HexVal(CodeAt(s, i + 4)), HexVal(CodeAt(s, i + 5))))
      [] OTHER -> ParseFail
StringChar(s, i, acc, c) ==
    CASE c = -1 -> ParseFail
      [] c = Quote -> ParseOk(JsStr(acc), i + 1)
      [] c = Backslash -> StringEscape(s, i, acc, CodeAt(s, i + 1))
      [] c >= 0 /\ c < 32 -> ParseFail
      [] OTHER -> ParseStringBody(s, i + 1, acc \o CharOfCode(c))
ParseStringBody(s, i, acc) == StringChar(s, i, acc, CodeAt(s, i))

RECURSIVE ParseValue(_, _)
RECURSIVE ParseElements(_, _, _)
RECURSIVE ParseMembers(_, _, _)

\* One JSON value starting at position i (no leading whitespace): c is the
\* code unit at i, j the first position after it that is not whitespace.
ValueAt(s, i, c, j) ==
    IF c = LeftBrace THEN
        IF CodeAt(s, j) = RightBrace THEN ParseOk(JsObj(<<>>), j + 1)
        ELSE ParseMembers(s, j, <<>>)
    ELSE IF c = LeftBracket THEN
        IF CodeAt(s, j) = RightBracket THEN ParseOk(JsArr(<<>>), j + 1)
        ELSE ParseElements(s, j, <<>>)
    ELSE IF c = Quote THEN ParseStringBody(s, i + 1, <<>>)
    ELSE IF OccursAt(s, i, TrueText) THEN ParseOk(JsBool(TrueText), i + 4)
    ELSE IF OccursAt(s, i, FalseText) THEN ParseOk(JsBool(FalseText), i + 5)
    ELSE IF OccursAt(s, i, NullText) THEN ParseOk(JsNull, i + 4)
    ELSE ParseNumber(s, i)
ParseValue(s, i) == ValueAt(s, i, CodeAt(s, i), SkipWs(s, i + 1))

\* The elements of an array, from the first element (whitespace skipped):
\* r is the parse of the element at i, j the position after it.
ElementsNext(s, acc, j) ==
    IF CodeAt(s, j) = Comma THEN ParseElements(s, SkipWs(s, j + 1), acc)
    ELSE IF CodeAt(s, j) = RightBracket THEN ParseOk(JsArr(acc), j + 1)
    ELSE ParseFail
ElementParsed(s, acc, r) ==
    IF ~r.ok THEN ParseFail ELSE ElementsNext(s, Append(acc, r.v), SkipWs(s, r.p))
ParseElements(s, i, acc) == ElementParsed(s, acc, ParseValue(s, i))

\* The members of an object, from the first key (whitespace skipped): k is
\* the parse of the key, c the position of the colon, r the parse of the
\* value, j the position after it.
MembersNext(s, acc, j) ==
    IF CodeAt(s, j) = Comma THEN ParseMembers(s, SkipWs(s, j + 1), acc)
    ELSE IF CodeAt(s, j) = RightBrace THEN ParseOk(JsObj(acc), j + 1)
    ELSE ParseFail
MemberParsed(s, acc, key, r) ==
    IF ~r.ok THEN ParseFail
    ELSE MembersNext(s, Append(acc, [k |-> key, v |-> r.v]), SkipWs(s, r.p))
MemberColon(s, acc, key, c) ==
    IF CodeAt(s, c) # Colon THEN ParseFail
    ELSE MemberParsed(s, acc, key, ParseValue(s, SkipWs(s, c + 1)))
MemberKey(s, acc, k) ==
    IF ~k.ok THEN ParseFail ELSE MemberColon(s, acc, k.v.s, SkipWs(s, k.p))
ParseMembers(s, i, acc) ==
    IF CodeAt(s, i) # Quote THEN ParseFail
    ELSE MemberKey(s, acc, ParseStringBody(s, i + 1, <<>>))

\* JSON.parse(text): ok is FALSE where JSON.parse throws; r is the parse of
\* the value after the leading whitespace.
WholeText(text, r) ==
    IF r.ok /\ SkipWs(text, r.p) = Len(text) + 1 THEN r ELSE ParseFail
JsonParse(text) == WholeText(text, ParseValue(text, SkipWs(text, 1)))

Sign(i) == IF i > 0 THEN 1 ELSE IF i < 0 THEN -1 ELSE 0
Max(i, j) == IF i >= j THEN i ELSE j
Min(i, j) == IF i <= j THEN i ELSE j

DigitAt(a, i) == IF i <= Len(a) THEN a[i] ELSE 0

\* The decimal digits of a small natural, units first.
RECURSIVE NatDigits(_)
NatDigits(i) == IF i = 0 THEN <<>> ELSE <<i % 10>> \o NatDigits(i \div 10)

\* The highest index in lo..hi of a non-zero element of d, or 0; h is the
\* answer for the upper half.
RECURSIVE TopNonZero(_, _, _)
TopOrLower(h, d, lo, mid) == IF h # 0 THEN h ELSE TopNonZero(d, lo, mid)
TopNonZero(d, lo, hi) ==
    IF lo > hi THEN 0
    ELSE IF lo = hi THEN (IF d[lo] # 0 THEN lo ELSE 0)
    ELSE TopOrLower(TopNonZero(d, (lo + hi) \div 2 + 1, hi), d, lo, (lo + hi) \div 2)

\* The lowest index in lo..hi of a non-zero element of d, or 0; l is the
\* answer for the lower half.
RECURSIVE BottomNonZero(_, _, _)
BottomOrUpper(l, d, mid, hi) == IF l # 0 THEN l ELSE BottomNonZero(d, mid + 1, hi)
BottomNonZero(d, lo, hi) ==
    IF lo > hi THEN 0
    ELSE IF lo = hi THEN (IF d[lo] # 0 THEN lo ELSE 0)
    ELSE BottomOrUpper(BottomNonZero(d, lo, (lo + hi) \div 2), d, (lo + hi) \div 2, hi)

\* The digits d without leading zeros.
Canonical(d) == SubSeq(d, 1, TopNonZero(d, 1, Len(d)))

\* The columns lo..hi of u (integers, column i weighing 10^(i-1)) as digits,
\* with the carry c coming in and the carry going out; low is the result
\* for the lower half.
RECURSIVE Carry(_, _, _, _)
CarryOne(x) == [d |-> <<x % 10>>, c |-> x \div 10]
CarryBoth(low, high) == [d |-> low.d \o high.d, c |-> high.c]
CarryUpper(u, mid, hi, low) == CarryBoth(low, Carry(u, mid + 1, hi, low.c))
Carry(u, lo, hi, c) ==
    IF lo > hi THEN [d |-> <<>>, c |-> c]
    ELSE IF lo = hi THEN CarryOne(u[lo] + c)
    ELSE CarryUpper(u, (lo + hi) \div 2, hi, Carry(u, lo, (lo + hi) \div 2, c))

\* The natural number whose n columns are u.
WithCarryOut(r) == Canonical(r.d \o NatDigits(r.c))
OfColumns(u, n) == WithCarryOut(Carry(u, 1, n, 0))

Add(a, b) ==
    IF Len(a) = 0 THEN b
    ELSE IF Len(b) = 0 THEN a
    ELSE OfColumns([i \in 1..Max(Len(a), Len(b)) |-> DigitAt(a, i) + DigitAt(b, i)],
                   Max(Len(a), Len(b)))

\* a - b for a >= b.
Sub(a, b) ==
    IF Len(b) = 0 THEN a
    ELSE Canonical(Carry([i \in 1..Len(a) |-> a[i] - DigitAt(b, i)], 1, Len(a), 0).d)

\* a * k for a small natural k.
MulSmall(a, k) ==
    IF Len(a) = 0 \/ k = 0 THEN <<>>
    ELSE OfColumns([i \in 1..Len(a) |-> a[i] * k], Len(a))

\* The sum of a[i] * b[k + 1 - i] for i in lo..hi.
RECURSIVE SumProducts(_, _, _, _, _)
SumProducts(a, b, k, lo, hi) ==
    IF lo > hi THEN 0
    ELSE IF lo = hi THEN a[lo] * b[k + 1 - lo]
    ELSE SumProducts(a, b, k, lo, (lo + hi) \div 2)
         + SumProducts(a, b, k, (lo + hi) \div 2 + 1, hi)

Mul(a, b) ==
    IF Len(a) = 0 \/ Len(b) = 0 THEN <<>>
    ELSE OfColumns([k \in 1..(Len(a) + Len(b) - 1) |->
                       SumProducts(a, b, k, Max(1, k + 1 - Len(b)), Min(k, Len(a)))],
                   Len(a) + Len(b) - 1)

\* a * 10^q
Shift(a, q) == IF Len(a) = 0 \/ q = 0 THEN a ELSE [i \in 1..q |-> 0] \o a

\* -1, 0 or 1 as a is less than, equal to or greater than b; h is the answer
\* for the upper digits.
RECURSIVE CompareDigits(_, _, _, _)
CompareLower(h, a, b, lo, mid) == IF h # 0 THEN h ELSE CompareDigits(a, b, lo, mid)
CompareDigits(a, b, lo, hi) ==
    IF lo > hi THEN 0
    ELSE IF lo = hi THEN Sign(a[lo] - b[lo])
    ELSE CompareLower(CompareDigits(a, b, (lo + hi) \div 2 + 1, hi), a, b, lo, (lo + hi) \div 2)
Compare(a, b) ==
    IF Len(a) # Len(b) THEN Sign(Len(a) - Len(b)) ELSE CompareDigits(a, b, 1, Len(a))

\* b^k for a small b; h is b^(k \div 2).
RECURSIVE Power(_, _)
PowerOfHalf(b, k, h) == IF k % 2 = 0 THEN Mul(h, h) ELSE MulSmall(Mul(h, h), b)
Power(b, k) == IF k = 0 THEN <<1>> ELSE PowerOfHalf(b, k, Power(b, k \div 2))

\* The multiples 1*y .. 9*y.
Multiples(y) == SubSeq([t \in 1..9 |-> MulSmall(y, t)], 1, 9)

\* Long division of r by y, digit positions hi down to lo (units are
\* position 0), for r < y * 10^(hi+1): the quotient digits, highest first,
\* and the remainder.  ys is Multiples(y); t is the digit at position j.
RECURSIVE Divide(_, _, _, _)
DigitTaken(r, ys, j, t) ==
    [q |-> <<t>>, r |-> IF t = 0 THEN r ELSE Sub(r, Shift(ys[t], j))]
DivideDigit(r, ys, j) ==
    DigitTaken(r, ys, j, Cardinality({t \in 1..9 : Compare(r, Shift(ys[t], j)) >= 0}))
DivideBoth(high, low) == [q |-> high.q \o low.q, r |-> low.r]
DivideLower(ys, mid, lo, high) == DivideBoth(high, Divide(high.r, ys, mid - 1, lo))
Divide(r, ys, hi, lo) ==
    IF hi = lo THEN DivideDigit(r, ys, hi)
    ELSE DivideLower(ys, (hi + lo + 1) \div 2, lo, Divide(r, ys, hi, (hi + lo + 1) \div 2))

\* The sequence s reversed.
Reversed(s) == SubSeq([i \in 1..Len(s) |-> s[Len(s) + 1 - i]], 1, Len(s))

(***************************************************************************)
(* The Number value of a JSON number (JSON.parse, line 170: the IEEE 754   *)
(* double nearest to the decimal, ties to even) and Number::toString of    *)
(* that value (lines 180-181).                                             *)
(*                                                                         *)
(* A positive decimal is given by its significant digits a (highest first, *)
(* no zero at either end) and the position n of its decimal point: the     *)
(* value is 0.a * 10^n.  A double is m * 2^e with m < 2^53, and e >= -1074.*)
(***************************************************************************)

TwoTo52 == Reversed(<<4, 5, 0, 3, 5, 9, 9, 6, 2, 7, 3, 7, 0, 4, 9, 6>>)
TwoTo53 == Reversed(<<9, 0, 0, 7, 1, 9, 9, 2, 5, 4, 7, 4, 0, 9, 9, 2>>)

\* Whether num / den >= 2^c.
AtLeastPowerOfTwo(num, den, c) ==
    IF c >= 0 THEN Compare(num, Mul(den, Power(2, c))) >= 0
    ELSE Compare(Mul(num, Power(2, -c)), den) >= 0

\* floor(log2(num / den)) for 10^(n-1) <= num / den < 10^n: c0 is below it
\* by at most 6.
Log2From(num, den, c0) ==
    c0 + Cardinality({c \in (c0 + 1)..(c0 + 6) : AtLeastPowerOfTwo(num, den, c)})
Log2Floor(num, den, n) == Log2From(num, den, ((n - 1) * 3321928) \div 1000000 - 1)

\* The double m * 2^e, m a natural below 2^53 + 1: 2^53 is 2^52 with the
\* next exponent; beyond the largest exponent the value is Infinity; 0 is 0.
Double(m, e) ==
    IF Len(m) = 0 THEN [cls |-> "zero", m |-> <<>>, e |-> 0]
    ELSE IF Compare(m, TwoTo53) = 0 THEN
        (IF e + 1 > 971 THEN [cls |-> "inf", m |-> <<>>, e |-> 0]
         ELSE [cls |-> "finite", m |-> TwoTo52, e |-> e + 1])
    ELSE IF e > 971 THEN [cls |-> "inf", m |-> <<>>, e |-> 0]
    ELSE [cls |-> "finite", m |-> m, e |-> e]

\* Rounding to nearest, ties to even: the quotient m0 of x by y with the
\* remainder r, half being Compare(2r, y).
RoundedUp(m0, half) == half > 0 \/ (half = 0 /\ Len(m0) > 0 /\ m0[1] % 2 = 1)
Rounded(m0, e, up) == Double(IF up THEN Add(m0, <<1>>) ELSE m0, e)
RoundQuotient(div, y, e, m0) ==
    Rounded(m0, e, RoundedUp(m0, Compare(MulSmall(div.r, 2), y)))
Quotient(div, y, e) == RoundQuotient(div, y, e, Canonical(Reversed(div.q)))

\* The double nearest to x / (y * 2^e), or to x * 2^(-e) / y.
NearestScaled(x, y, e) == Quotient(Divide(x, Multiples(y), 15, 0), y, e)
NearestAt(num, den, e) ==
    IF e >= 0 THEN NearestScaled(num, Mul(den, Power(2, e)), e)
    ELSE NearestScaled(Mul(num, Power(2, -e)), den, e)
NearestFrom(num, den, x) ==
    IF x > 1023 THEN [cls |-> "inf", m |-> <<>>, e |-> 0]
    ELSE NearestAt(num, den, Max(x - 52, -1074))
Nearest(num, den, n) == NearestFrom(num, den, Log2Floor(num, den, n))

\* The double nearest to 0.a * 10^n, for -330 < n < 330.
ToDouble(a, n) ==
    Nearest(Shift(Reversed(a), Max(n - Len(a), 0)), Shift(<<1>>, Max(Len(a) - n, 0)), n)

\* The decimals that denote the double d = m * 2^e are those between the
\* midpoints to its neighbours (the midpoints too when m is even).  In units
\* of 2^(e-2): d is 4m, the upper midpoint 4m + 2, the lower one 4m - 2, or
\* 4m - 1 where the lower neighbour is half as far (m = 2^52, except at the
\* least exponent).  With f the unit as a natural, at scale 10^s.
LowerGap(d) == IF Compare(d.m, TwoTo52) = 0 /\ d.e > -1074 THEN <<1>> ELSE <<2>>
UnitOf(d) == IF d.e - 2 >= 0 THEN Power(2, d.e - 2) ELSE Power(5, 2 - d.e)
ScaleOf(d) == IF d.e - 2 >= 0 THEN 0 ELSE d.e - 2

\* Whether c lies in the interval lo..hi (the ends included if closed).
Within(c, lo, hi, closed) ==
    IF closed THEN Compare(lo, c) <= 0 /\ Compare(c, hi) <= 0
    ELSE Compare(lo, c) < 0 /\ Compare(c, hi) < 0

\* mid with its j lowest digits cleared, and the next multiple of 10^j.
Floored(mid, j) ==
    IF j >= Len(mid) THEN <<>> ELSE [i \in 1..j |-> 0] \o SubSeq(mid, j + 1, Len(mid))
Ceiled(mid, j) == Add(Floored(mid, j), Shift(<<1>>, j))

HasMultiple(lo, mid, hi, closed, j) ==
    \/ Within(Floored(mid, j), lo, hi, closed)
    \/ Within(Ceiled(mid, j), lo, hi, closed)

\* The greatest j such that a multiple of 10^j lies in the interval: one of
\* 17 significant digits always does.
GreatestFrom(lo, mid, hi, closed, j0) ==
    j0 + Cardinality({j \in (j0 + 1)..Len(hi) : HasMultiple(lo, mid, hi, closed, j)})
GreatestPower(lo, mid, hi, closed) ==
    GreatestFrom(lo, mid, hi, closed, Max(0, Len(hi) - 18))

\* Of the multiples fl and ce of 10^j on either side of mid, the one in the
\* interval that is nearer to mid, the even one on a tie; nearer compares
\* the two distances.
NearerOf(fl, ce, j, nearer) ==
    IF nearer < 0 THEN fl
    ELSE IF nearer > 0 THEN ce
    ELSE IF DigitAt(fl, j + 1) % 2 = 0 THEN fl ELSE ce
PickMultiple(lo, mid, hi, closed, j, fl, ce) ==
    IF ~Within(ce, lo, hi, closed) THEN fl
    ELSE IF ~Within(fl, lo, hi, closed) THEN ce
    ELSE NearerOf(fl, ce, j, Compare(Sub(mid, fl), Sub(ce, mid)))
ShortestMultiple(lo, mid, hi, closed, j) ==
    PickMultiple(lo, mid, hi, closed, j, Floored(mid, j), Ceiled(mid, j))

\* The shortest decimal that denotes d: its digits (highest first) and the
\* position of its decimal point; c is that decimal at scale 10^s.
DecimalOf(c, s) ==
    [digits |-> Reversed(SubSeq(c, BottomNonZero(c, 1, Len(c)), Len(c))), n |-> Len(c) + s]
ShortestIn(lo, mid, hi, closed, s) ==
    DecimalOf(ShortestMultiple(lo, mid, hi, closed, GreatestPower(lo, mid, hi, closed)), s)
ShortestScaled(d, m4, f) ==
    ShortestIn(Mul(Sub(m4, LowerGap(d)), f), Mul(m4, f), Mul(Add(m4, <<2>>), f),
               d.m[1] % 2 = 0, ScaleOf(d))
Shortest(d) == ShortestScaled(d, MulSmall(d.m, 4), UnitOf(d))

\* The digit values of a text of digits.
DigitValues(t) == SubSeq([i \in 1..Len(t) |-> t[i] - Zero], 1, Len(t))

\* The natural with at most 9 digits ds (highest first).
RECURSIVE NatOf(_)
NatOf(ds) == IF Len(ds) = 0 THEN 0 ELSE 10 * NatOf(SubSeq(ds, 1, Len(ds) - 1)) + ds[Len(ds)]

\* The exponent of a lexeme: 0 without an exponent part, else the signed
\* value of its digits; beyond 9 significant digits the value is taken as
\* 10^9, far outside the range of doubles.  first is the index of the first
\* digit other than 0.
ExponentLimit == 1000000000
ExponentValue(ds, first) ==
    IF first = 0 THEN 0
    ELSE IF Len(ds) - first + 1 > 9 THEN ExponentLimit
    ELSE NatOf(SubSeq(ds, first, Len(ds)))
ExponentDigits(ds) == ExponentValue(ds, BottomNonZero(ds, 1, Len(ds)))
ExponentOfPart(part) ==
    IF part[1] = Minus THEN -ExponentDigits(DigitValues(SliceFrom(part, 1)))
    ELSE IF part[1] = Plus THEN ExponentDigits(DigitValues(SliceFrom(part, 1)))
    ELSE ExponentDigits(DigitValues(part))

\* The decimal an unsigned lexeme u denotes: e is the index of its exponent
\* letter, dot the index of its decimal point (-1 where there is none); ds
\* are the digits of the mantissa, point the number of them before the
\* decimal point, first and final the indexes of the first and the last digit
\* other than 0.
SignificantDigits(ds, point, exponent, first, final) ==
    IF first = 0 THEN [zero |-> TRUE, digits |-> <<>>, n |-> 0]
    ELSE [zero |-> FALSE, digits |-> SubSeq(ds, first, final),
          n |-> point - (first - 1) + exponent]
DecimalOfDigits(ds, point, exponent) ==
    SignificantDigits(ds, point, exponent,
                      BottomNonZero(ds, 1, Len(ds)), TopNonZero(ds, 1, Len(ds)))
DecimalOfMantissa(mantissa, dot, exponent) ==
    IF dot = -1 THEN DecimalOfDigits(DigitValues(mantissa), Len(mantissa), exponent)
    ELSE DecimalOfDigits(DigitValues(SliceTo(mantissa, dot) \o SliceFrom(mantissa, dot + 1)),
                         dot, exponent)
DecimalOfParts(mantissa, exponent) ==
    DecimalOfMantissa(mantissa, IndexOf(mantissa, <<Dot>>), exponent)
DecimalAt(u, e) ==
    IF e = -1 THEN DecimalOfParts(u, 0)
    ELSE DecimalOfParts(SliceTo(u, e), ExponentOfPart(SliceFrom(u, e + 1)))
DecimalOfLexeme(u) ==
    DecimalAt(u, MinOrMinusOne({i \in 0..(Len(u) - 1) : u[i + 1] \in {LowerE, UpperE}}))

\* A Number value other than NaN, without its sign: zero, Infinity, or a
\* finite value given by the shortest decimal that denotes it (digits
\* highest first, n the position of the decimal point).
NumZero == [cls |-> "zero", digits |-> <<>>, n |-> 0]
NumInfinity == [cls |-> "inf", digits |-> <<>>, n |-> 0]
NumOfDouble(d) ==
    IF d.cls = "zero" THEN NumZero
    ELSE IF d.cls = "inf" THEN NumInfinity
    ELSE [cls |-> "finite"] @@ Shortest(d)

\* The Number value of a decimal: at 10^309 and above every decimal rounds
\* to Infinity, below 10^-324 every decimal rounds to 0.
NumOfDecimal(dec) ==
    IF dec.zero THEN NumZero
    ELSE IF dec.n > 309 THEN NumInfinity
    ELSE IF dec.n < -323 THEN NumZero
    ELSE NumOfDouble(ToDouble(dec.digits, dec.n))

IsNegative(lexeme) == lexeme[1] = Minus
Unsigned(lexeme) == IF IsNegative(lexeme) THEN SliceFrom(lexeme, 1) ELSE lexeme

\* The magnitude of the Number value JSON.parse gives for a number lexeme.
NumberValue(lexeme) == NumOfDecimal(DecimalOfLexeme(Unsigned(lexeme)))

\* Whether the Number value of a lexeme is +0 or -0: the lexeme has no digit
\* other than 0 in its mantissa, or it is too small to round to a double
\* other than 0 (1e-400).
IsZeroLexeme(lexeme) == NumberValue(lexeme).cls = "zero"

\* The text of digit values, of k zeros, and of a small natural.
DigitText(ds) == SubSeq([i \in 1..Len(ds) |-> ds[i] + Zero], 1, Len(ds))
Zeros(k) == SubSeq([i \in 1..k |-> Zero], 1, k)
NatText(i) == IF i = 0 THEN <<Zero>> ELSE DigitText(Reversed(NatDigits(i)))

InfinityText == Str("Infinity")

\* Number::toString (radix 10) of the finite value 0.ds * 10^n, k being the
\* number of digits: plain digits up to 10^21, a fraction down to 10^-7,
\* else the exponential form.
ExponentText(x) ==
    IF x >= 0 THEN <<LowerE, Plus>> \o NatText(x) ELSE <<LowerE, Minus>> \o NatText(-x)
FiniteText(ds, k, n) ==
    IF k <= n /\ n <= 21 THEN DigitText(ds) \o Zeros(n - k)
    ELSE IF 0 < n /\ n <= 21
    THEN DigitText(SubSeq(ds, 1, n)) \o <<Dot>> \o DigitText(SubSeq(ds, n + 1, k))
    ELSE IF -6 < n /\ n <= 0 THEN <<Zero, Dot>> \o Zeros(-n) \o DigitText(ds)
    ELSE IF k = 1 THEN DigitText(ds) \o ExponentText(n - 1)
    ELSE DigitText(SubSeq(ds, 1, 1)) \o <<Dot>> \o DigitText(SubSeq(ds, 2, k))
         \o ExponentText(n - 1)

\* Number::toString of the value v with the sign neg: both zeros print "0".
NumberText(v, neg) ==
    IF v.cls = "zero" THEN <<Zero>>
    ELSE (IF neg THEN <<Minus>> ELSE <<>>)
         \o (IF v.cls = "inf" THEN InfinityText ELSE FiniteText(v.digits, Len(v.digits), v.n))

\* String(JSON.parse(lexeme)) for a number lexeme.
NumberToString(lexeme) == NumberText(NumberValue(lexeme), IsNegative(lexeme))

(***************************************************************************)
(* JavaScript semantics of the values used by appendChunkFromSseData.      *)
(***************************************************************************)

ResponseKey == Str("response")
ChoicesKey == Str("choices")
IndexZero == Str("0")
DeltaKey == Str("delta")
ContentKey == Str("content")
ToStringKey == Str("toString")

\* The own property `key` of an object: the last member with that key.
RECURSIVE LastMember(_, _, _)
LastMember(members, key, n) ==
    IF n = 0 THEN Undefined
    ELSE IF members[n].k = key THEN members[n].v
    ELSE LastMember(members, key, n - 1)

\* v.key or v[0] (key "0") for a value v that is neither null nor undefined.
GetProp(v, key) ==
    IF v.t = "obj" THEN LastMember(v.a, key, Len(v.a))
    ELSE IF v.t = "arr" /\ key = IndexZero /\ Len(v.a) > 0 THEN v.a[1]
    ELSE IF v.t = "str" /\ key = IndexZero /\ Len(v.s) > 0 THEN JsStr(SubSeq(v.s, 1, 1))
    ELSE Undefined

\* v?.key
OptGet(v, key) == IF v.t \in {"null", "undefined"} THEN Undefined ELSE GetProp(v, key)

\* ToBoolean(v)
Truthy(v) ==
    IF v.t \in {"undefined", "null"} THEN FALSE
    ELSE IF v.t = "bool" THEN v.s = TrueText
    ELSE IF v.t = "num" THEN ~IsZeroLexeme(v.s)
    ELSE IF v.t = "str" THEN Len(v.s) > 0
    ELSE TRUE

\* Whether converting v to a string throws TypeError: an object parsed from
\* JSON whose own toString member (never callable) hides Object.prototype's.
RECURSIVE ToStringThrows(_)
ToStringThrows(v) ==
    IF v.t = "obj" THEN \E i \in 1..Len(v.a) : v.a[i].k = ToStringKey
    ELSE IF v.t = "arr" THEN \E i \in 1..Len(v.a) : ToStringThrows(v.a[i])
    ELSE FALSE

ObjectText == Str("[object Object]")
UndefinedText == Str("undefined")

\* JsToString(v) as used by `responseText += content`, where it does not throw.
RECURSIVE JsToString(_)
RECURSIVE JoinElements(_, _)
JsToString(v) ==
    IF v.t = "str" THEN v.s
    ELSE IF v.t = "bool" THEN v.s
    ELSE IF v.t = "num" THEN NumberToString(v.s)
    ELSE IF v.t = "arr" THEN JoinElements(v.a, 1)
    ELSE IF v.t = "obj" THEN ObjectText
    ELSE IF v.t = "null" THEN NullText
    ELSE UndefinedText

\* Array.prototype.join(","): null and undefined elements print as "".
JoinElements(elems, i) ==
    IF i > Len(elems) THEN <<>>
    ELSE (IF elems[i].t \in {"null", "undefined"} THEN <<>> ELSE JsToString(elems[i]))
         \o (IF i < Len(elems) THEN <<Comma>> ELSE <<>>)
         \o JoinElements(elems, i + 1)

(***************************************************************************)
(* appendChunkFromSseData (chat.js 168-188) and the event loops of         *)
(* sendMessage (143-146 and 156-163).                                      *)
(***************************************************************************)

\* The termination sentinel.
DoneSentinel == Str("[DONE]")

\* Lines 174-175 without the test of response.length.
SelectContentAnyString(response, nested) ==
    IF response.t = "str" THEN response
    ELSE IF Truthy(nested) THEN nested
    ELSE JsStr(<<>>)
\* Lines 173-178: the content selected from a parsed, non-null payload:
\* response is jsonData.response, nested is
\* jsonData.choices?.[0]?.delta?.content.
SelectContent(response, nested) ==
    IF response.t = "str" /\ Len(response.s) > 0 THEN response
    ELSE IF Truthy(nested) THEN nested
    ELSE JsStr(<<>>)
ContentOf(jsonData) ==
    SelectContent(GetProp(jsonData, ResponseKey),
                  OptGet(OptGet(OptGet(GetProp(jsonData, ChoicesKey), IndexZero), DeltaKey),
                         ContentKey))

\* What one run of the try body (170-183) does: threw tells that an
\* exception left it, flush that flushAssistantText ran, text is the text
\* appended to responseText.
NoDelta == [threw |-> FALSE, flush |-> FALSE, text |-> <<>>]
Thrown == [threw |-> TRUE, flush |-> FALSE, text |-> <<>>]

\* Lines 180-183 for the selected content: nothing happens when the content
\* is falsy; its conversion to a string may throw TypeError.
DeltaOfContent(content) ==
    IF ~Truthy(content) THEN NoDelta
    ELSE IF ToStringThrows(content) THEN Thrown
    ELSE [threw |-> FALSE, flush |-> TRUE, text |-> JsToString(content)]

\* Lines 170-183 for the result r of JSON.parse(data): JSON.parse throws
\* SyntaxError, and reading .response of null throws TypeError.
TryBody(r) ==
    IF ~r.ok THEN Thrown
    ELSE IF r.v.t = "null" THEN Thrown
    ELSE DeltaOfContent(ContentOf(r.v))

\* The try without its catch: the exception leaves appendChunkFromSseData.
Uncaught(d) == d
\* Lines 184-187: the catch swallows whatever the try body throws.
Caught(d) == IF d.threw THEN NoDelta ELSE d

\* What appendChunkFromSseData(data) does.
DeltaOf(data) == Caught(TryBody(JsonParse(data)))

\* One run of appendChunkFromSseData on the loop state st where the delta
\* replaces the accumulated text.
ApplyDeltaReplaces(st, data, d) ==
    [st EXCEPT !.responseText = IF d.flush THEN d.text ELSE @,
               !.shown = IF d.flush THEN d.text ELSE @,
               !.processed = Append(@, data),
               !.threw = d.threw]
\* One run of appendChunkFromSseData where the element is given the delta
\* in place of the accumulated text.
ApplyDeltaShowsDelta(st, data, d) ==
    [st EXCEPT !.responseText = @ \o d.text,
               !.shown = IF d.flush THEN d.text ELSE @,
               !.processed = Append(@, data),
               !.threw = d.threw]
\* One run of appendChunkFromSseData on the loop state st, d being DeltaOf(data).
ApplyDelta(st, data, d) ==
    [st EXCEPT !.responseText = @ \o d.text,
               !.shown = IF d.flush THEN st.responseText \o d.text ELSE @,
               !.processed = Append(@, data),
               !.threw = d.threw]
appendChunkFromSseData(st, data) == ApplyDelta(st, data, DeltaOf(data))

\* Whether an event payload is the sentinel (lines 144 and 157).
IsSentinel(data) == data = DoneSentinel

\* The for loops at 143-146 and 156-163 over the events of one framing, from
\* event i: each payload goes to appendChunkFromSseData until the sentinel,
\* which ends the loop (an exception leaving appendChunkFromSseData would end
\* it too).  st is [responseText, shown, sawDone, processed, threw]: shown
\* the text last written to the assistant element, processed the payloads
\* handed to appendChunkFromSseData so far in the cycle.
RECURSIVE ProcessEvents(_, _, _)
\* The loops with `continue` in place of `break` at the sentinel.
RECURSIVE ProcessEventsPastSentinel(_, _, _)
ProcessEventsPastSentinel(events, i, st) ==
    IF i > Len(events) \/ st.threw THEN st
    ELSE IF IsSentinel(events[i])
    THEN ProcessEventsPastSentinel(events, i + 1, [st EXCEPT !.sawDone = TRUE])
    ELSE ProcessEventsPastSentinel(events, i + 1, appendChunkFromSseData(st, events[i]))
ProcessEvents(events, i, st) ==
    IF i > Len(events) \/ st.threw THEN st
    ELSE IF IsSentinel(events[i]) THEN [st EXCEPT !.sawDone = TRUE]
    ELSE ProcessEvents(events, i + 1, appendChunkFromSseData(st, events[i]))


(***************************************************************************)
(* TextDecoder (line 127) and decoder.decode(value, {stream: true}) (line  *)
(* 151): the UTF-8 decoder of the Encoding standard.  A decoder holds the  *)
(* code point under way (cp, with need bytes in all of which seen have     *)
(* come, the next one within lower..upper) and whether its first code      *)
(* point has been put out (bom): a byte order mark there is dropped.  An   *)
(* ill-formed sequence is put out as U+FFFD.                               *)
(***************************************************************************)

Replacement == 65533
ByteOrderMark == 65279

\* new TextDecoder()
TextDecoder ==
    [need |-> 0, seen |-> 0, cp |-> 0, lower |-> 128, upper |-> 191, bom |-> FALSE]

\* A decoder between two code points.
Rested(d) == [d EXCEPT !.need = 0, !.seen = 0, !.cp = 0, !.lower = 128, !.upper = 191]

\* The code units of a code point: a surrogate pair above U+FFFF.
CodeUnitsOf(cp) ==
    IF cp > 65535
    THEN <<55296 + ((cp - 65536) \div 1024), 56320 + ((cp - 65536) % 1024)>>
    ELSE <<cp>>

\* Decoder d puts out the code point cp.
Emit(d, cp) ==
    IF ~d.bom /\ cp = ByteOrderMark THEN [decoder |-> [d EXCEPT !.bom = TRUE], text |-> <<>>]
    ELSE [decoder |-> [d EXCEPT !.bom = TRUE], text |-> CodeUnitsOf(cp)]

\* Decoder d, between two code points, takes the byte b.
LeadByte(d, b) ==
    CASE b <= 127 -> Emit(d, b)
      [] b >= 194 /\ b <= 223 ->
             [decoder |-> [d EXCEPT !.need = 1, !.cp = b % 32], text |-> <<>>]
      [] b >= 224 /\ b <= 239 ->
             [decoder |-> [d EXCEPT !.need = 2, !.cp = b % 16,
                                    !.lower = IF b = 224 THEN 160 ELSE 128,
                                    !.upper = IF b = 237 THEN 159 ELSE 191],
              text |-> <<>>]
      [] b >= 240 /\ b <= 244 ->
             [decoder |-> [d EXCEPT !.need = 3, !.cp = b % 8,
                                    !.lower = IF b = 240 THEN 144 ELSE 128,
                                    !.upper = IF b = 244 THEN 143 ELSE 191],
              text |-> <<>>]
      [] OTHER -> Emit(d, Replacement)

\* The output r followed by what comes after it, next.
Then(r, next) == [text |-> r.text \o next.text, decoder |-> next.decoder]

\* After the output r, the byte b is taken as a first byte.
TakenAgain(r, b) == Then(r, LeadByte(r.decoder, b))

\* Decoder d, inside a code point, takes the byte b: a byte that cannot
\* continue the sequence ends it as U+FFFD and is taken again as a first byte.
ContinuationByte(d, b) ==
    IF b < d.lower \/ b > d.upper THEN TakenAgain(Emit(Rested(d), Replacement), b)
    ELSE IF d.seen + 1 = d.need THEN Emit(Rested(d), d.cp * 64 + (b % 64))
    ELSE [decoder |-> [d EXCEPT !.cp = d.cp * 64 + (b % 64), !.seen = d.seen + 1,
                                !.lower = 128, !.upper = 191],
          text |-> <<>>]

DecodeByte(d, b) == IF d.need = 0 THEN LeadByte(d, b) ELSE ContinuationByte(d, b)

\* The bytes lo..hi of value go through decoder d; low is the output for the
\* lower half.
RECURSIVE DecodeRange(_, _, _, _)
DecodeUpper(value, mid, hi, low) == Then(low, DecodeRange(low.decoder, value, mid + 1, hi))
DecodeRange(d, value, lo, hi) ==
    IF lo > hi THEN [decoder |-> d, text |-> <<>>]
    ELSE IF lo = hi THEN DecodeByte(d, value[lo])
    ELSE DecodeUpper(value, (lo + hi) \div 2, hi, DecodeRange(d, value, lo, (lo + hi) \div 2))

\* decoder.decode(value, {stream: true}): the text put out and the decoder
\* as the call leaves it (bytes of an unfinished code point are kept in it).
Decode(decoder, value) == DecodeRange(decoder, value, 1, Len(value))

\* The UTF-8 bytes of a text without surrogates, to write the bodies a
\* server sends.
EncodeUnit(c) ==
    IF c < 128 THEN <<c>>
    ELSE IF c < 2048 THEN <<192 + (c \div 64), 128 + (c % 64)>>
    ELSE <<224 + (c \div 4096), 128 + ((c \div 64) % 64), 128 + (c % 64)>>
RECURSIVE EncodeRange(_, _, _)
EncodeRange(text, lo, hi) ==
    IF lo > hi THEN <<>>
    ELSE IF lo = hi THEN EncodeUnit(text[lo])
    ELSE EncodeRange(text, lo, (lo + hi) \div 2) \o EncodeRange(text, (lo + hi) \div 2 + 1, hi)
Encode(text) == EncodeRange(text, 1, Len(text))

(***************************************************************************)
(* escapeHtml and addMessageToChat (chat.js 212-230).                      *)
(***************************************************************************)

escapeHtml(str) ==
    ReplaceAll(ReplaceAll(ReplaceAll(ReplaceAll(ReplaceAll(str,
        Str("&"), Str("&amp;")), Str("<"), Str("&lt;")), Str(">"), Str("&gt;")),
        Str("\""), Str("&quot;")), Str("'"), Str("&#039;"))

\* The element addMessageToChat(role, content) appends to the message list.
MessageEl(role, content) ==
    [cls |-> "message " \o role \o "-message", badge |-> "",
     html |-> Str("<p>") \o escapeHtml(content) \o Str("</p>"), text |-> <<>>]

\* The assistant element sendMessage builds at 81-95: a badge and an empty <p>.
AssistantEl(agent) ==
    [cls |-> "message assistant-message",
     badge |-> IF agent = "cf" THEN "Cloudflare" ELSE "Azure",
     html |-> <<>>, text |-> <<>>]

ErrorText == Str("Sorry, there was an error processing your request.")

\* getAgent(): window.getSelectedAgent() || "azure"; sel is what the index
\* script's function returns ("" when it is missing, throws or returns a falsy
\* value).
getAgent(sel) == IF sel = "" THEN "azure" ELSE sel

(***************************************************************************)
(* Bounds and inputs of the model.                                         *)
(***************************************************************************)

\* Submissions accepted in one behaviour.
MaxCycles == 2
\* A read delivers 1..MaxChunk bytes, or all that is left of the body.
MaxChunk == 2
\* Blocks per text given to the framer alone.
MaxBlocks == 3
\* Calls of the framer on one text.
MaxFeeds == 3
\* Lines of a block given to the framer.
MaxLines == 2
\* Payloads given in a row to appendChunkFromSseData alone.
MaxPayloads == 2

\* What the user may have typed into the input box: nothing, white space
\* only (a space, a newline, a no-break space), a message between spaces.
Inputs == {<<>>, Str(" \n") \o <<160>>, Str(" hi ")}

\* What window.getSelectedAgent() may return.
Selections == {"", "cf"}

EventA == Str("data: {\"response\":\"A\"}\n\n")
EventB == Str("data:{\"response\":\"B\"}\r\n\r\n")
EventC == Str("data: {\"response\":\"C\"}\n\n")
EventDone == Str("data: [DONE]\n\n")

\* e with an acute accent (two bytes in UTF-8), and a reply that holds it.
EAcute == <<233>>
Accented == Str("H") \o EAcute
AccentedPayload ==
    Str("{\"choices\":[{\"delta\":{\"content\":\"") \o Accented \o Str("\"}}]}")

\* The bodies a server may send; one starts with a byte order mark, one
\* holds a character of two bytes and ends without a blank line.
Streams ==
    { Encode(EventA \o EventB \o EventDone \o EventC),
      Encode(Str(": ping\n\ndata: {}\n\ndata: oops\n\ndata: null\n\ndata: ")
             \o AccentedPayload),
      Encode(<<ByteOrderMark>> \o Str("data: 5\n\ndata: [DONE]")),
      Encode(<<>>) }

\* The responses fetch may resolve to: a status and a body (<<>> inside a
\* one-element sequence), or no body.
NoBody == <<>>
Responses ==
    {[status |-> 200, body |-> <<b>>] : b \in Streams}
    \cup {[status |-> 200, body |-> NoBody],
          [status |-> 500, body |-> <<Encode(Str("boom"))>>],
          [status |-> 404, body |-> NoBody]}

\* The texts given to the framer alone: up to MaxBlocks blocks.
Blocks ==
    {Str("data: x\n\n"), Str("data:y\r\n\r\n"), Str(":c\n\n"), Str("data:a\n"),
     Str("\n"), Str("\r")}

\* The lines a block of a stream may hold: data lines with no, one or more
\* spaces after the prefix, an empty data line, a comment, another field,
\* and a line where the prefix is not at the start.
Lines ==
    {Str("data: x"), Str("data:y"), Str("data:  z "), Str("data:"), Str(":c"),
     Str("id: 3"), Str(" data: w")}

\* Sequences of up to n lines.
RECURSIVE LineSeqs(_)
LineSeqs(n) ==
    IF n = 0 THEN {<<>>}
    ELSE LET shorter == LineSeqs(n - 1)
         IN  shorter \cup {Append(b, l) : b \in shorter, l \in Lines}

\* The blocks that may precede and follow a block: none, or one event.
Neighbours == {<<>>, <<(<<Str("data: p")>>)>>, <<(<<Str("data:q"), Str(": k")>>)>>}

\* The text of a sequence of blocks: the lines of each block end with a
\* newline but the last, and a blank line ends each block.
RECURSIVE TextOfBlocks(_)
TextOfBlocks(blocks) ==
    IF Len(blocks) = 0 THEN <<>>
    ELSE Join(blocks[1], Lf) \o BlankLine \o TextOfBlocks(SubSeq(blocks, 2, Len(blocks)))

\* The payloads given to appendChunkFromSseData alone.
Payloads ==
    { Str("{\"response\":\"Hi\"}"),
      Str("{\"choices\":[{\"delta\":{\"content\":\"Hi\"}}]}"),
      Str("{\"response\":\"\",\"choices\":[{\"delta\":{\"content\":\"B\"}}]}"),
      Str("{\"response\":\"R\",\"choices\":[{\"delta\":{\"content\":\"N\"}}]}"),
      Str("{\"response\":5,\"choices\":[{\"delta\":{\"content\":\"F\"}}]}"),
      Str("{\"response\":\"\\u00e9") \o EAcute \o Str("\"}"),
      Str("{\"choices\":[{\"delta\":{\"content\":\"\"}}]}"),
      Str("{\"choices\":[{\"delta\":{}}]}"),
      Str("{\"choices\":[]}"),
      Str("{}"),
      Str("null"),
      Str("oops"),
      Str("{\"response\":\"Hi\"") }

\* Sequences of up to n payloads.
RECURSIVE PayloadSeqs(_)
PayloadSeqs(n) ==
    IF n = 0 THEN {<<>>}
    ELSE LET shorter == PayloadSeqs(n - 1)
         IN  shorter \cup {Append(q, d) : q \in shorter, d \in Payloads}

RECURSIVE TextsOf(_)
TextsOf(n) ==
    IF n = 0 THEN {<<>>}
    ELSE LET shorter == TextsOf(n - 1)
         IN  shorter \cup {t \o b : t \in shorter, b \in Blocks}

(***************************************************************************)
(* State.                                                                  *)
(***************************************************************************)

VARIABLES
    chatHistory,    \* line 14: the conversation turns
    isProcessing,   \* line 21
    inputValue,     \* userInput.value
    inputDisabled,  \* userInput.disabled
    sendDisabled,   \* sendButton.disabled
    typingVisible,  \* typingIndicator has class "visible"
    chatMessages,   \* the children of the chat-messages element
    calls,          \* the suspended invocations of sendMessage
    fetches,        \* the number of requests issued (line 102)
    last,           \* the outcome of the cycle that finished last
    ftext, fpos, fbuf, fevents, fcalls, \* the framer fed alone
    fblocks,                \* the lines of the blocks ftext was written from
    dpayloads, dpos, dst    \* appendChunkFromSseData applied alone

coreVars == <<chatHistory, isProcessing, inputValue, inputDisabled, sendDisabled,
              typingVisible, chatMessages, calls, fetches, last>>
framerVars == <<ftext, fpos, fbuf, fevents, fcalls, fblocks>>
deltaVars == <<dpayloads, dpos, dst>>
aloneVars == <<framerVars, deltaVars>>
vars == <<coreVars, aloneVars>>

Greeting == Str("Hello! I'm an LLM chat app. Choose an agent above and ask me anything.")

NoCycle ==
    [outcome |-> "none", message |-> <<>>, before |-> <<>>, request |-> <<>>,
     responseText |-> <<>>, shown |-> <<>>, processed |-> <<>>,
     el |-> 0, status |-> 0, stream |-> <<>>, pos |-> 0, prev |-> 0]

CoreInit ==
    /\ chatHistory = <<[role |-> "assistant", content |-> Greeting]>>
    /\ isProcessing = FALSE
    /\ inputValue = <<>>
    /\ inputDisabled = FALSE
    /\ sendDisabled = FALSE
    /\ typingVisible = FALSE
    /\ chatMessages = <<>>
    /\ calls = <<>>
    /\ fetches = 0
    /\ last = NoCycle

FramerIdle ==
    /\ ftext = <<>>
    /\ fpos = 0
    /\ fbuf = <<>>
    /\ fevents = <<>>
    /\ fcalls = 0
    /\ fblocks = <<>>

\* Lines 127-128 and 130: the locals a read loop starts from.
FreshLoopState ==
    [responseText |-> <<>>, shown |-> <<>>, sawDone |-> FALSE, processed |-> <<>>,
     threw |-> FALSE]

DeltaIdle ==
    /\ dpayloads = <<>>
    /\ dpos = 0
    /\ dst = FreshLoopState

Init == CoreInit /\ FramerIdle /\ DeltaIdle

(***************************************************************************)
(* sendMessage (chat.js 53-207).  An invocation suspended at an await is a *)
(* frame of calls: pc "fetch" (line 102), "text" (line 117) or "read"      *)
(* (line 138).  A frame holds the locals of the invocation; stream and pos *)
(* describe the body: the bytes the server sends and how many of them the  *)
(* reader has delivered.                                                   *)
(***************************************************************************)

RemoveAt(seq, i) == SubSeq(seq, 1, i - 1) \o SubSeq(seq, i + 1, Len(seq))

\* Line 57 without the test of isProcessing.
RejectsEmptyOnly(message) == message = <<>>
\* Line 57 with && in place of ||.
RejectsBoth(message) == message = <<>> /\ isProcessing
\* Line 57: the submission is dropped.
Rejects(message) == message = <<>> \/ isProcessing

\* The user edits the input box (or a script sets its value).
SetInput(v) ==
    /\ v # inputValue
    /\ inputValue' = v
    /\ UNCHANGED <<chatHistory, isProcessing, inputDisabled, sendDisabled, typingVisible,
                   chatMessages, calls, fetches, last, aloneVars>>

\* Accept with the request body built before the user's turn is pushed.
AcceptSendsOldHistory(message, agent) ==
    /\ fetches < MaxCycles
    /\ isProcessing' = TRUE
    /\ inputDisabled' = TRUE
    /\ sendDisabled' = TRUE
    /\ inputValue' = <<>>
    /\ typingVisible' = TRUE
    /\ chatHistory' = Append(chatHistory, [role |-> "user", content |-> message])
    /\ chatMessages' = chatMessages \o <<MessageEl("user", message), AssistantEl(agent)>>
    /\ fetches' = fetches + 1
    /\ calls' = Append(calls,
           [pc |-> "fetch", message |-> message, before |-> chatHistory,
            request |-> [agent |-> agent, messages |-> chatHistory],
            el |-> Len(chatMessages) + 2,
            responseText |-> <<>>, buffer |-> <<>>, decoder |-> TextDecoder,
            sawDone |-> FALSE, shown |-> <<>>, processed |-> <<>>, threw |-> FALSE,
            status |-> 0, stream |-> <<>>, pos |-> 0])
    /\ last' = NoCycle
    /\ UNCHANGED aloneVars
\* Lines 59-102: an accepted submission of `message` for `agent`, up to the
\* await of fetch.
Accept(message, agent) ==
    /\ fetches < MaxCycles
    /\ isProcessing' = TRUE
    /\ inputDisabled' = TRUE
    /\ sendDisabled' = TRUE
    /\ inputValue' = <<>>
    /\ typingVisible' = TRUE
    /\ chatHistory' = Append(chatHistory, [role |-> "user", content |-> message])
    /\ chatMessages' = chatMessages \o <<MessageEl("user", message), AssistantEl(agent)>>
    /\ fetches' = fetches + 1
    /\ calls' = Append(calls,
           [pc |-> "fetch", message |-> message, before |-> chatHistory,
            request |-> [agent |-> agent, messages |-> chatHistory'],
            el |-> Len(chatMessages) + 2,
            responseText |-> <<>>, buffer |-> <<>>, decoder |-> TextDecoder,
            sawDone |-> FALSE, shown |-> <<>>, processed |-> <<>>, threw |-> FALSE,
            status |-> 0, stream |-> <<>>, pos |-> 0])
    /\ last' = NoCycle
    /\ UNCHANGED aloneVars

\* Lines 53-102: sendMessage with the trimmed input `message`.
SendMessage(message, agent) ==
    IF Rejects(message) THEN UNCHANGED vars ELSE Accept(message, agent)

\* sendMessage is called (Enter or the send button); it returns at once, or
\* runs up to the await of fetch.
Submit(sel) == SendMessage(Trim(inputValue), getAgent(sel))

\* Line 196: the element addMessageToChat builds for the error message.
ErrorEl == MessageEl("assistant", ErrorText)

\* Lines 197-206: the finally block.
Finally ==
    /\ typingVisible' = FALSE
    /\ isProcessing' = FALSE
    /\ inputDisabled' = FALSE
    /\ sendDisabled' = FALSE

\* What last records of the frame f that ends with `outcome`: prev is the
\* number of bytes that had been delivered when the last read was issued.
Summary(f, outcome, prev) ==
    [outcome |-> outcome, message |-> f.message, before |-> f.before,
     request |-> f.request, responseText |-> f.responseText, shown |-> f.shown,
     processed |-> f.processed, el |-> f.el, status |-> f.status,
     stream |-> f.stream, pos |-> f.pos, prev |-> prev]

\* The catch block also recording the error message as an assistant turn.
ThrowRecordsError(i, f, outcome) ==
    /\ chatMessages' = Append([chatMessages EXCEPT ![f.el].text = f.shown],
                              ErrorEl)
    /\ chatHistory' = Append(chatHistory, [role |-> "assistant", content |-> ErrorText])
    /\ Finally
    /\ calls' = RemoveAt(calls, i)
    /\ last' = Summary(f, outcome, f.pos)
    /\ UNCHANGED <<inputValue, fetches, aloneVars>>
\* The catch block taking the user's turn back out of the history.
ThrowRollsBack(i, f, outcome) ==
    /\ chatMessages' = Append([chatMessages EXCEPT ![f.el].text = f.shown],
                              ErrorEl)
    /\ chatHistory' = f.before
    /\ Finally
    /\ calls' = RemoveAt(calls, i)
    /\ last' = Summary(f, outcome, f.pos)
    /\ UNCHANGED <<inputValue, fetches, aloneVars>>
\* The catch block with the cleanup left in the try body, which the throw
\* skips.
ThrowSkipsCleanup(i, f, outcome) ==
    /\ chatMessages' = Append([chatMessages EXCEPT ![f.el].text = f.shown],
                              ErrorEl)
    /\ calls' = RemoveAt(calls, i)
    /\ last' = Summary(f, outcome, f.pos)
    /\ UNCHANGED <<chatHistory, inputValue, fetches, aloneVars, typingVisible,
                   isProcessing, inputDisabled, sendDisabled>>
\* Lines 194-206: invocation i, with frame f, throws inside the try: one
\* error message is shown, then the finally block runs.
Throw(i, f, outcome) ==
    /\ chatMessages' = Append([chatMessages EXCEPT ![f.el].text = f.shown],
                              ErrorEl)
    /\ Finally
    /\ calls' = RemoveAt(calls, i)
    /\ last' = Summary(f, outcome, f.pos)
    /\ UNCHANGED <<chatHistory, inputValue, fetches, aloneVars>>

\* Lines 190-206 without the test at 191.
ConcludeAlwaysRecords(i, f, outcome, prev) ==
    /\ chatHistory' = Append(chatHistory, [role |-> "assistant", content |-> f.responseText])
    /\ chatMessages' = [chatMessages EXCEPT ![f.el].text = f.shown]
    /\ Finally
    /\ calls' = RemoveAt(calls, i)
    /\ last' = Summary(f, outcome, prev)
    /\ UNCHANGED <<inputValue, fetches, aloneVars>>
\* Lines 190-206: invocation i leaves the read loop with frame f: the
\* assistant turn is recorded if there is text, then the finally block runs.
Conclude(i, f, outcome, prev) ==
    /\ chatHistory' = IF Len(f.responseText) > 0
                      THEN Append(chatHistory, [role |-> "assistant", content |-> f.responseText])
                      ELSE chatHistory
    /\ chatMessages' = [chatMessages EXCEPT ![f.el].text = f.shown]
    /\ Finally
    /\ calls' = RemoveAt(calls, i)
    /\ last' = Summary(f, outcome, prev)
    /\ UNCHANGED <<inputValue, fetches, aloneVars>>

\* response.ok taken to be true of every response.
IsOkAlways(status) == TRUE
\* response.ok
IsOk(status) == status >= 200 /\ status <= 299

\* Line 102: fetch rejects (a network error).
FetchFails(i) ==
    /\ calls[i].pc = "fetch"
    /\ Throw(i, calls[i], "network")

\* Lines 102-129: fetch resolves with response r.
FetchResolves(i, r) ==
    /\ calls[i].pc = "fetch"
    /\ IF ~IsOk(r.status)
       THEN /\ calls' = [calls EXCEPT ![i].pc = "text", ![i].status = r.status]
            /\ UNCHANGED <<chatHistory, isProcessing, inputValue, inputDisabled, sendDisabled,
                           typingVisible, chatMessages, fetches, last, aloneVars>>
       ELSE IF r.body = NoBody
       THEN Throw(i, [calls[i] EXCEPT !.status = r.status], "nobody")
       ELSE /\ calls' = [calls EXCEPT ![i].pc = "read", ![i].status = r.status,
                                      ![i].stream = r.body[1]]
            /\ UNCHANGED <<chatHistory, isProcessing, inputValue, inputDisabled, sendDisabled,
                           typingVisible, chatMessages, fetches, last, aloneVars>>

\* Lines 116-119: response.text() settles (resolved or rejected), and the
\* error is thrown.
DetailsSettle(i) ==
    /\ calls[i].pc = "text"
    /\ Throw(i, calls[i], "status")

\* The loop state of a frame, and a frame with a loop state written back.
LoopState(f) ==
    [responseText |-> f.responseText, shown |-> f.shown, sawDone |-> f.sawDone,
     processed |-> f.processed, threw |-> FALSE]
WithLoopState(f, st) ==
    [f EXCEPT !.responseText = st.responseText, !.shown = st.shown,
              !.sawDone = st.sawDone, !.processed = st.processed, !.threw = st.threw]

\* Lines 153-165: the frame after the events of `parsed` went through the
\* loop and left the loop state st; n is the length of the chunk.
AfterChunk(f, n, parsed, st) ==
    [WithLoopState(f, st) EXCEPT
         !.buffer = IF st.sawDone THEN <<>> ELSE parsed.buffer,
         !.pos = f.pos + n]

\* Lines 151-163: the frame after a chunk `value` was decoded and framed.
FrameChunk(f, n, parsed) ==
    AfterChunk(f, n, parsed, ProcessEvents(parsed.events, 1, LoopState(f)))
\* decoded is what the decoder of the frame gave for the chunk.
Decoded(f, n, decoded) ==
    FrameChunk([f EXCEPT !.decoder = decoded.decoder], n,
               consumeSseEvents(f.buffer \o decoded.text))
DecodeChunk(f, value) == Decoded(f, Len(value), Decode(f.decoder, value))

\* Lines 165-166, 190-206: the loop goes on to the next read, or ends on the
\* sentinel (or on an exception); f is the frame before the chunk, g the
\* frame after it.
ContinueOrEnd(i, f, g) ==
    IF g.threw THEN Throw(i, g, "event")
    ELSE IF g.sawDone
    THEN Conclude(i, g, "sentinel", f.pos)
    ELSE /\ calls' = [calls EXCEPT ![i] = g]
         /\ chatMessages' = [chatMessages EXCEPT ![f.el].text = g.shown]
         /\ UNCHANGED <<chatHistory, isProcessing, inputValue, inputDisabled,
                        sendDisabled, typingVisible, fetches, last, aloneVars>>

\* Lines 138, 150-165: reader.read() resolves with a chunk of n bytes.
ReadChunk(i, n) ==
    /\ calls[i].pc = "read"
    /\ n >= 1
    /\ calls[i].pos + n <= Len(calls[i].stream)
    /\ n <= MaxChunk \/ calls[i].pos + n = Len(calls[i].stream)
    /\ ContinueOrEnd(i, calls[i],
           DecodeChunk(calls[i], SubSeq(calls[i].stream, calls[i].pos + 1, calls[i].pos + n)))

\* The done branch leaving the loop without framing the buffer.
FlushSkipped(f) == f
\* Lines 142-147: the frame after the flush of the buffer at end of data
\* (sawDone is not written there).
Flush(f) ==
    WithLoopState(f,
        [ProcessEvents(consumeSseEvents(f.buffer \o BlankLine).events, 1, LoopState(f))
             EXCEPT !.sawDone = f.sawDone])

\* Lines 147-148, 190-206: after the flush left frame g.
EndOfData(i, g) ==
    IF g.threw THEN Throw(i, g, "event") ELSE Conclude(i, g, "eof", g.pos)

\* Lines 138-148: reader.read() resolves with done: the buffer is flushed.
ReadDone(i) ==
    /\ calls[i].pc = "read"
    /\ calls[i].pos = Len(calls[i].stream)
    /\ EndOfData(i, Flush(calls[i]))

\* Line 138: reader.read() rejects (the connection breaks).
ReadFails(i) ==
    /\ calls[i].pc = "read"
    /\ Throw(i, calls[i], "read")

CoreNext ==
    \/ \E v \in Inputs : SetInput(v)
    \/ \E sel \in Selections : Submit(sel)
    \/ \E i \in DOMAIN calls : FetchFails(i)
    \/ \E i \in DOMAIN calls : \E r \in Responses : FetchResolves(i, r)
    \/ \E i \in DOMAIN calls : DetailsSettle(i)
    \/ \E i \in DOMAIN calls : \E n \in 1..Len(calls[i].stream) : ReadChunk(i, n)
    \/ \E i \in DOMAIN calls : ReadDone(i)
    \/ \E i \in DOMAIN calls : ReadFails(i)

Next == CoreNext

Spec == Init /\ [][Next]_vars

\* Every await settles: fetch and response.text() resolve or reject, and
\* each reader.read() yields a chunk, the end of data or a failure.
Settle ==
    \E i \in DOMAIN calls :
        \/ FetchFails(i)
        \/ DetailsSettle(i)
        \/ ReadFails(i)
        \/ ReadDone(i)
        \/ \E r \in Responses : FetchResolves(i, r)
        \/ \E n \in 1..Len(calls[i].stream) : ReadChunk(i, n)

SpecLive == Init /\ [][Next]_vars /\ WF_vars(Settle)

(***************************************************************************)
(* The framer fed alone: a text is cut into chunks, and each call of       *)
(* consumeSseEvents receives the previous remainder followed by the next   *)
(* chunk, as the read loop does at 151-154.                                *)
(***************************************************************************)

FramerInit ==
    /\ CoreInit
    /\ DeltaIdle
    /\ ftext \in TextsOf(MaxBlocks)
    /\ fpos = 0
    /\ fbuf = <<>>
    /\ fevents = <<>>
    /\ fcalls = 0
    /\ fblocks = <<>>

\* Lines 153-154 on the buffer `buffer`: the events are collected, the
\* remainder is kept for the next call.
FeedParsed(n, parsed) ==
    /\ fevents' = fevents \o parsed.events
    /\ fbuf' = parsed.buffer
    /\ fpos' = fpos + n
    /\ fcalls' = fcalls + 1
    /\ UNCHANGED <<ftext, fblocks, coreVars, deltaVars>>

\* Lines 151-154: the next n characters arrive.
Feed(n) ==
    /\ fcalls < MaxFeeds
    /\ fpos + n <= Len(ftext)
    /\ FeedParsed(n, consumeSseEvents(fbuf \o SubSeq(ftext, fpos + 1, fpos + n)))

FramerNext == \E n \in 1..Len(ftext) : Feed(n)

SpecFramer == FramerInit /\ [][FramerNext]_vars

(***************************************************************************)
(* The framer called once on a text written as blocks of lines: a block of *)
(* up to MaxLines lines between two neighbours.                            *)
(***************************************************************************)

BlocksInit ==
    /\ CoreInit
    /\ DeltaIdle
    /\ fblocks \in {pre \o <<mid>> \o post :
                        pre \in Neighbours, mid \in LineSeqs(MaxLines), post \in Neighbours}
    /\ ftext = TextOfBlocks(fblocks)
    /\ fpos = 0
    /\ fbuf = <<>>
    /\ fevents = <<>>
    /\ fcalls = 0

\* Lines 153-154: the whole text arrives in one chunk.
FeedWhole == fpos = 0 /\ Feed(Len(ftext))

BlocksNext == FeedWhole

SpecBlocks == BlocksInit /\ [][BlocksNext]_vars

(***************************************************************************)
(* appendChunkFromSseData applied alone to a sequence of payloads, each    *)
(* call on the loop state the previous one left (line 161).                *)
(***************************************************************************)

DeltaInit ==
    /\ CoreInit
    /\ FramerIdle
    /\ dpayloads \in PayloadSeqs(MaxPayloads)
    /\ dpos = 0
    /\ dst = FreshLoopState

ApplyNext ==
    /\ dpos < Len(dpayloads)
    /\ dst' = appendChunkFromSseData(dst, dpayloads[dpos + 1])
    /\ dpos' = dpos + 1
    /\ UNCHANGED <<dpayloads, coreVars, framerVars>>

DeltaNext == ApplyNext

SpecDelta == DeltaInit /\ [][DeltaNext]_vars

(***************************************************************************)
(* Properties.                                                             *)
(***************************************************************************)

\* C1: chunk-boundary invariance.  When a text has been fed to the framer in
\* two or more chunks, each call receiving the previous remainder followed by
\* the next chunk, the events of all calls in order and the final remainder
\* are those of one call on the whole text.
SameAsOneCall(one) == fevents = one.events /\ fbuf = one.buffer
ChunkBoundaryInvariance ==
    (fpos = Len(ftext) /\ fcalls >= 2) => SameAsOneCall(consumeSseEvents(ftext))

\* A text of two events and a remainder, fed whole in three chunks, with a
\* carriage return stripped on the way.
ChunkBoundaryWitness ==
    /\ fpos = Len(ftext)
    /\ fcalls = 3
    /\ Len(fevents) = 2
    /\ fbuf # <<>>
    /\ IndexOf(ftext, Cr) # -1

(***************************************************************************)
(* The cycle that finished last, as `last` describes it.                   *)
(***************************************************************************)

UserTurn(c) == [role |-> "user", content |-> c.message]
AssistantTurn(text) == [role |-> "assistant", content |-> text]
Clean(c) == c.outcome \in {"eof", "sentinel"}
Failed(c) == c.outcome \in {"network", "status", "nobody", "read"}

\* The lifecycle state Idle: no invocation is suspended and the terminal
\* action has run.
Idle ==
    /\ calls = <<>>
    /\ ~isProcessing
    /\ ~typingVisible
    /\ ~inputDisabled
    /\ ~sendDisabled

Range(seq) == {seq[i] : i \in DOMAIN seq}

\* The text of each prefix of a body, as a decoder gives it: entry n + 1 is
\* the text of the first n bytes.
TextsOfPrefixes(stream) ==
    SubSeq([k \in 1..(Len(stream) + 1) |->
                Decode(TextDecoder, SubSeq(stream, 1, k - 1)).text],
           1, Len(stream) + 1)
\* The same for every body, worked out once.
PrefixTexts == [stream \in Streams |-> TextsOfPrefixes(stream)] @@ <<>>
\* The text of the first n bytes of a body.
TextOfPrefix(stream, n) == PrefixTexts[stream][n + 1]

\* The events of each text of a sequence, each text framed in one call.
EventsOfTexts(texts) ==
    SubSeq([k \in DOMAIN texts |-> consumeSseEvents(texts[k]).events], 1, Len(texts))
PrefixEvents == [stream \in Streams |-> EventsOfTexts(PrefixTexts[stream])] @@ <<>>
\* The events of the first n bytes of a body, framed in one call.
EventsOfPrefix(stream, n) == PrefixEvents[stream][n + 1]

\* The events of a whole body followed by the final blank line.
WholeEvents ==
    [stream \in Streams |->
        consumeSseEvents(PrefixTexts[stream][Len(stream) + 1] \o BlankLine).events] @@ <<>>

\* The events of all that a finished cycle was given, framed in one call
\* (with the final blank line when the data ended).
EventsOfCycle(c) ==
    IF c.outcome = "eof" /\ c.pos = Len(c.stream) THEN WholeEvents[c.stream]
    ELSE IF c.outcome = "eof"
    THEN consumeSseEvents(TextOfPrefix(c.stream, c.pos) \o BlankLine).events
    ELSE EventsOfPrefix(c.stream, c.pos)

\* The events that precede the first "[DONE]"; k is its index, or -1.
PrefixBefore(events, k) == IF k = -1 THEN events ELSE SubSeq(events, 1, k - 1)
BeforeSentinel(events) ==
    PrefixBefore(events, MinOrMinusOne({i \in DOMAIN events : events[i] = DoneSentinel}))

\* The deltas of a sequence of payloads, concatenated in order.
RECURSIVE ConcatDeltas(_)
ConcatDeltas(events) ==
    IF Len(events) = 0 THEN <<>>
    ELSE DeltaOf(events[1]).text \o ConcatDeltas(SubSeq(events, 2, Len(events)))

\* C2: the sentinel ends the cycle.  A cycle that ended cleanly processed
\* exactly the events before the first [DONE] of what it was given and its
\* text is the concatenation of their deltas; a cycle ended by the sentinel
\* issued its last read before any sentinel was framed; and no invocation
\* waits for a chunk once a sentinel has been framed.
SentinelEndsCycle ==
    /\ Clean(last) =>
          /\ last.processed = BeforeSentinel(EventsOfCycle(last))
          /\ last.responseText = ConcatDeltas(last.processed)
    /\ last.outcome = "sentinel" =>
          /\ DoneSentinel \in Range(EventsOfCycle(last))
          /\ DoneSentinel \notin Range(EventsOfPrefix(last.stream, last.prev))
    /\ \A i \in DOMAIN calls :
          calls[i].pc = "read" =>
              DoneSentinel \notin Range(EventsOfPrefix(calls[i].stream, calls[i].pos))

\* Events A, B, [DONE], C: the chunk that completed the sentinel also held
\* the whole of event C, and the text is "AB".
SentinelWitness ==
    /\ last.outcome = "sentinel"
    /\ last.responseText = Str("AB")
    /\ last.pos = Len(last.stream)
    /\ Len(EventsOfCycle(last)) = 4
    /\ Len(last.processed) = 2

\* C3: a submit while a cycle is in flight changes nothing: history, the
\* suspended invocation (its text and buffer), the lifecycle flags, the
\* message list and the number of requests issued all stay as they are.
SubmitInFlightIsNoOp ==
    [][(isProcessing /\ \E sel \in Selections : Submit(sel)) => UNCHANGED vars]_vars

\* A cycle is streaming, with text accumulated and a partial block buffered,
\* while the input box holds a message.
SubmitInFlightWitness ==
    /\ isProcessing
    /\ Len(calls) = 1
    /\ calls[1].pc = "read"
    /\ calls[1].responseText # <<>>
    /\ calls[1].buffer # <<>>
    /\ Trim(inputValue) # <<>>

\* C4: at most one cycle is active: at most one invocation is suspended, it
\* is there exactly while isProcessing is set, and a request is issued only
\* from Idle.
OneCycleAtATime ==
    /\ [](Len(calls) <= 1 /\ (isProcessing <=> calls # <<>>))
    /\ [][fetches' # fetches => (Idle /\ Len(calls') = 1)]_vars

\* The second cycle is streaming while the input box holds a message.
OneCycleWitness ==
    /\ fetches = 2
    /\ Len(calls) = 1
    /\ calls[1].pc = "read"
    /\ calls[1].pos > 0
    /\ Trim(inputValue) # <<>>

\* C5: under SpecLive (every await settles), a cycle that starts returns to
\* Idle: busy indicator hidden, input enabled, isProcessing false.
CycleReturnsToIdle == (calls # <<>>) ~> Idle

\* A cycle ended on a missing body and the state is Idle.
ReturnsToIdleWitness ==
    /\ Idle
    /\ last.outcome = "nobody"
    /\ fetches = 1

\* C6: a response with a non-2xx status leads to no read of the body by the
\* read loop (the invocation never waits at reader.read(), nothing is framed
\* or processed), appends no assistant turn, and leaves the state Idle.
BadStatusAppendsNothing ==
    /\ \A i \in DOMAIN calls :
          (calls[i].status # 0 /\ calls[i].status \notin 200..299) => calls[i].pc = "text"
    /\ (last.outcome # "none" /\ last.status # 0 /\ last.status \notin 200..299) =>
          /\ chatHistory = Append(last.before, UserTurn(last))
          /\ last.pos = 0
          /\ last.processed = <<>>
          /\ last.responseText = <<>>
          /\ Idle

\* A cycle ended on status 500.
BadStatusWitness ==
    /\ last.outcome = "status"
    /\ last.status = 500
    /\ Idle
    /\ chatHistory[Len(chatHistory)].role = "user"

\* C7: after a transport failure the history is the history before the cycle
\* followed by the cycle's user turn only, and the message list ends with the
\* cycle's user message, its assistant element (showing what had been
\* accumulated) and exactly one error message.
TransportFailureKeepsHistory ==
    Failed(last) =>
        /\ chatHistory = Append(last.before, UserTurn(last))
        /\ Len(chatMessages) = last.el + 1
        /\ chatMessages[last.el + 1] = MessageEl("assistant", ErrorText)
        /\ chatMessages[last.el].text = last.responseText
        /\ chatMessages[last.el].html = <<>>

\* A read failed after deltas had been accumulated.
TransportFailureWitness ==
    /\ last.outcome = "read"
    /\ last.responseText = Str("AB")
    /\ last.pos < Len(last.stream)

\* A payload that is not JSON, or JSON that is no object with a response or
\* choices member ({}, null, a number, ...); r is its parse.
MalformedParse(r) ==
    \/ ~r.ok
    \/ r.v.t # "obj"
    \/ \A i \in DOMAIN r.v.a : r.v.a[i].k \notin {ResponseKey, ChoicesKey}
Malformed(data) == MalformedParse(JsonParse(data))

\* The deltas of the payloads that are not malformed, concatenated in order.
RECURSIVE TextOfWellFormed(_)
TextOfWellFormed(events) ==
    IF Len(events) = 0 THEN <<>>
    ELSE (IF Malformed(events[1]) THEN <<>> ELSE DeltaOf(events[1]).text)
         \o TextOfWellFormed(SubSeq(events, 2, Len(events)))

\* C8: a malformed event never ends a cycle and shows no error: the
\* accumulated text is the text of the other events processed, and a cycle
\* that ended cleanly processed every event before the sentinel and added no
\* error message.
MalformedEventsIgnored ==
    /\ last.outcome # "event"
    /\ \A i \in DOMAIN calls :
          calls[i].pc = "read" => calls[i].responseText = TextOfWellFormed(calls[i].processed)
    /\ Clean(last) =>
          /\ last.responseText = TextOfWellFormed(last.processed)
          /\ last.processed = BeforeSentinel(EventsOfCycle(last))
          /\ Len(chatMessages) = last.el

\* A cycle ended cleanly with the accented reply after an unparseable payload, {} and
\* null had been processed.
MalformedWitness ==
    /\ last.outcome = "eof"
    /\ last.responseText = Accented
    /\ {Str("oops"), Str("{}"), Str("null")} \subseteq Range(last.processed)
    /\ Malformed(Str("oops")) /\ Malformed(Str("{}")) /\ Malformed(Str("null"))

\* C9: a cycle that ends cleanly with no text appends no assistant turn: the
\* history is the history before the cycle followed by the user's turn.
EmptyCycleAppendsNothing ==
    (Clean(last) /\ last.responseText = <<>>) =>
        chatHistory = Append(last.before, UserTurn(last))

\* A cycle processed an event, accumulated nothing, and ended cleanly.
EmptyCycleWitness ==
    /\ Clean(last)
    /\ last.responseText = <<>>
    /\ Len(last.processed) > 0
    /\ Idle

\* C10: a cycle that ends cleanly with text appends exactly one assistant
\* turn, directly after its user turn, holding the accumulated text, which is
\* the concatenation in order of the deltas of the events processed.
CleanCycleAppendsReply ==
    (Clean(last) /\ last.responseText # <<>>) =>
        /\ chatHistory = last.before \o <<UserTurn(last), AssistantTurn(last.responseText)>>
        /\ last.responseText = ConcatDeltas(last.processed)

\* The second cycle ended cleanly with the deltas A and B accumulated, after
\* a first cycle that recorded a reply too.
CleanCycleWitness ==
    /\ Clean(last)
    /\ last.responseText = Str("AB")
    /\ Len(last.processed) = 2
    /\ Len(chatHistory) = 5

(***************************************************************************)
(* Delta extraction.                                                       *)
(***************************************************************************)

\* The value of member k of a JSON object (of its last member k), Undefined
\* when v is no object or has no such member.
Field(v, k) ==
    IF v.t = "obj" /\ \E i \in DOMAIN v.a : v.a[i].k = k
    THEN v.a[CHOOSE i \in DOMAIN v.a :
                 v.a[i].k = k /\ \A j \in DOMAIN v.a : v.a[j].k = k => j <= i].v
    ELSE Undefined
\* The first element of a JSON array, Undefined when there is none.
First(v) == IF v.t = "arr" /\ Len(v.a) >= 1 THEN v.a[1] ELSE Undefined
NonEmptyString(v) == v.t = "str" /\ v.s # <<>>

\* The delta the two schemas give for a payload: the response field if it is
\* a non-empty string, else choices[0].delta.content if it is one, else
\* nothing; nothing for a payload that is not JSON.  r is the parse.
SchemaB(v) == Field(Field(First(Field(v, ChoicesKey)), DeltaKey), ContentKey)
ExpectedOfParse(r) ==
    IF ~r.ok THEN <<>>
    ELSE IF NonEmptyString(Field(r.v, ResponseKey)) THEN Field(r.v, ResponseKey).s
    ELSE IF NonEmptyString(SchemaB(r.v)) THEN SchemaB(r.v).s
    ELSE <<>>
ExpectedDelta(data) == ExpectedOfParse(JsonParse(data))

RECURSIVE ExpectedText(_)
ExpectedText(payloads) ==
    IF Len(payloads) = 0 THEN <<>>
    ELSE ExpectedDelta(payloads[1]) \o ExpectedText(SubSeq(payloads, 2, Len(payloads)))

\* C11: dual-schema resolution.  After appendChunkFromSseData ran on the
\* first dpos payloads, no exception has left it, and the accumulated text
\* (and the text shown) is the concatenation of what the two schemas give for
\* each: the non-empty string response, else the non-empty string
\* choices[0].delta.content, else nothing.
DualSchemaResolution ==
    /\ ~dst.threw
    /\ dst.processed = SubSeq(dpayloads, 1, dpos)
    /\ dst.responseText = ExpectedText(dst.processed)
    /\ dst.shown = dst.responseText

\* An empty response with a Schema-B content "B" fell through to "B", then
\* invalid JSON added nothing.
DualSchemaWitness ==
    /\ dpos = 2
    /\ dpayloads[1] = Str("{\"response\":\"\",\"choices\":[{\"delta\":{\"content\":\"B\"}}]}")
    /\ dpayloads[2] = Str("oops")
    /\ dst.responseText = Str("B")

(***************************************************************************)
(* Blocks of lines.                                                        *)
(***************************************************************************)

\* Whether a line begins with the data: prefix.
IsDataLine(l) == Len(l) >= 5 /\ SubSeq(l, 1, 5) = Str("data:")
HasDataLine(lines) == \E i \in DOMAIN lines : IsDataLine(lines[i])

\* The payload of a data line framed as a block of its own.
LineContent(l) == consumeSseEvents(l \o BlankLine).events[1]

\* The contents of the data lines of a block, in order.
RECURSIVE ContentsOf(_)
ContentsOf(lines) ==
    IF Len(lines) = 0 THEN <<>>
    ELSE (IF IsDataLine(lines[1]) THEN <<LineContent(lines[1])>> ELSE <<>>)
         \o ContentsOf(SubSeq(lines, 2, Len(lines)))

\* Strings joined with one newline between neighbours.
RECURSIVE NewlineJoined(_)
NewlineJoined(parts) ==
    IF Len(parts) = 1 THEN parts[1]
    ELSE parts[1] \o Lf \o NewlineJoined(SubSeq(parts, 2, Len(parts)))

\* One event per block with a data line: the contents of its data lines
\* joined with a newline.
RECURSIVE EventsOfBlocks(_)
EventsOfBlocks(blocks) ==
    IF Len(blocks) = 0 THEN <<>>
    ELSE (IF HasDataLine(blocks[1]) THEN <<NewlineJoined(ContentsOf(blocks[1]))>> ELSE <<>>)
         \o EventsOfBlocks(SubSeq(blocks, 2, Len(blocks)))

\* C12: a block with several data lines gives exactly one event: after the
\* framer ran on the text of fblocks, the events are, block by block, the
\* contents of the block's data lines joined with a newline in their order;
\* the other lines of a block add nothing.
OneEventPerBlock ==
    fcalls = 1 => fevents = EventsOfBlocks(fblocks)

\* A block of two data lines after a block with a data line and a comment:
\* two events, the second one "x" and "y" joined.
OneEventPerBlockWitness ==
    /\ fcalls = 1
    /\ fblocks = << <<Str("data:q"), Str(": k")>>, <<Str("data: x"), Str("data:y")>> >>
    /\ fevents = <<Str("q"), Str("x\ny")>>

\* The blocks that hold a data line, in order.
RECURSIVE BlocksWithData(_)
BlocksWithData(blocks) ==
    IF Len(blocks) = 0 THEN <<>>
    ELSE (IF HasDataLine(blocks[1]) THEN <<blocks[1]>> ELSE <<>>)
         \o BlocksWithData(SubSeq(blocks, 2, Len(blocks)))

\* C13: a block without a data line (a comment, a keep-alive, an empty
\* block) gives no event and is consumed: after the framer ran on the text
\* of fblocks nothing is left in the buffer, there are as many events as
\* blocks with a data line, and the events are those of the text without
\* the blocks that have no data line.
NoDataBlockGivesNoEvent ==
    fcalls = 1 =>
        /\ fbuf = <<>>
        /\ Len(fevents) = Cardinality({i \in DOMAIN fblocks : HasDataLine(fblocks[i])})
        /\ fevents = consumeSseEvents(TextOfBlocks(BlocksWithData(fblocks))).events

\* A comment-only block between two blocks that give an event each.
NoDataBlockWitness ==
    /\ fcalls = 1
    /\ fblocks = << <<Str("data: p")>>, <<Str(":c")>>, <<Str("data:q"), Str(": k")>> >>
    /\ fevents = <<Str("p"), Str("q")>>
    /\ fbuf = <<>>

(***************************************************************************)
(* Framing over a cycle.                                                   *)
(***************************************************************************)

\* A text without its carriage returns.
RECURSIVE WithoutCr(_)
WithoutCr(text) ==
    IF Len(text) = 0 THEN <<>>
    ELSE (IF SubSeq(text, 1, 1) = Cr THEN <<>> ELSE SubSeq(text, 1, 1))
         \o WithoutCr(SubSeq(text, 2, Len(text)))

\* The number of blank-line separators met when a text is scanned from the
\* left; i is the index of the first one, or -1.
RECURSIVE CountSeparators(_)
CountFrom(text, i) ==
    IF i = -1 THEN 0 ELSE 1 + CountSeparators(SubSeq(text, i + 3, Len(text)))
CountSeparators(text) == CountFrom(text, IndexOf(text, BlankLine))

EndsWithSeparator(text) ==
    Len(text) >= 2 /\ SubSeq(text, Len(text) - 1, Len(text)) = BlankLine

\* `consumed` is what frame f has cut off the text it was given: whole
\* blocks only, each handed on once.
ConsumedOnce(f, consumed) ==
    /\ consumed = <<>> \/ EndsWithSeparator(consumed)
    /\ f.processed = consumeSseEvents(consumed).events
    /\ Len(f.processed) <= CountSeparators(consumed)

\* `text` is the text frame f was given so far (carriage returns removed):
\* it ends with the buffer, which holds no separator.
FramedOnce(f, text) ==
    /\ IndexOf(f.buffer, BlankLine) = -1
    /\ consumeSseEvents(f.buffer) = [events |-> <<>>, buffer |-> f.buffer]
    /\ Len(f.buffer) <= Len(text)
    /\ SubSeq(text, Len(text) - Len(f.buffer) + 1, Len(text)) = f.buffer
    /\ ConsumedOnce(f, SubSeq(text, 1, Len(text) - Len(f.buffer)))

\* C14: no event is emitted twice and no partial block is emitted.  For
\* every invocation in flight, the buffer is the end of the text delivered so
\* far and holds no blank-line separator (framing it again gives no event and
\* the same buffer), what precedes it is whole blocks, and the events
\* processed are the events of those blocks, at most one per block.
NoDuplicateNoPartial ==
    \A i \in DOMAIN calls :
        FramedOnce(calls[i], WithoutCr(TextOfPrefix(calls[i].stream, calls[i].pos)))

\* Two events were processed and the start of a third block is carried in
\* the buffer.
NoDuplicateWitness ==
    /\ Len(calls) = 1
    /\ calls[1].pc = "read"
    /\ Len(calls[1].processed) = 2
    /\ Len(calls[1].buffer) >= 5
    /\ calls[1].responseText = Str("AB")

(***************************************************************************)
(* End of data.                                                            *)
(***************************************************************************)

\* The events of a buffer taken as one block that a blank line ends.
TrailingEvents(buffer) == EventsOfBlocks(<<Split(buffer, Lf)>>)

\* Cycle c ended at end of data from frame f, whose buffer taken as a final
\* block gives `events`: an event that is not the sentinel is processed and
\* its delta accumulated; no event, or the sentinel, leaves the text as it was.
FlushedAs(f, c, events) ==
    /\ Len(events) <= 1
    /\ f.buffer = <<>> => events = <<>>
    /\ (events = <<>> \/ events = <<DoneSentinel>>) =>
           /\ c.processed = f.processed
           /\ c.responseText = f.responseText
    /\ (events # <<>> /\ events # <<DoneSentinel>>) =>
           /\ c.processed = Append(f.processed, events[1])
           /\ c.responseText = f.responseText \o DeltaOf(events[1]).text

\* C15: when the source signals end of data, the buffer is framed as if a
\* blank line followed it: a trailing block never ended by a blank line
\* gives its event and its delta is accumulated (unless it is the sentinel)
\* before the cycle concludes with that text; an empty buffer gives no event.
EndOfDataFlushes ==
    [][(Len(calls) = 1 /\ calls' = <<>> /\ last'.outcome = "eof") =>
          /\ FlushedAs(calls[1], last', TrailingEvents(calls[1].buffer))
          /\ chatHistory' = IF last'.responseText # <<>>
                            THEN Append(chatHistory, AssistantTurn(last'.responseText))
                            ELSE chatHistory]_vars

\* A body whose last block was never ended by a blank line: its event was
\* processed at end of data and the accented reply recorded.
EndOfDataWitness ==
    /\ last.outcome = "eof"
    /\ last.pos = Len(last.stream)
    /\ last.stream # <<>>
    /\ last.stream[Len(last.stream)] # 10
    /\ last.processed[Len(last.processed)] = AccentedPayload
    /\ chatHistory[Len(chatHistory)] = AssistantTurn(Accented)

(***************************************************************************)
(* The sink during streaming.                                              *)
(***************************************************************************)

IsPrefixOf(old, new) == Len(old) <= Len(new) /\ SubSeq(new, 1, Len(old)) = old

\* C16: while the read loop waits for a chunk, the text of the cycle's
\* assistant element is the accumulated text, which is the concatenation in
\* order of the deltas of the events processed so far; and every step of a
\* cycle leaves the text accumulated before as a prefix of the text after.
DisplayIsAccumulatedText ==
    /\ [](\A i \in DOMAIN calls :
            calls[i].pc = "read" =>
                /\ chatMessages[calls[i].el].text = calls[i].responseText
                /\ calls[i].responseText = ConcatDeltas(calls[i].processed))
    /\ [][(Len(calls) = 1 /\ fetches' = fetches) =>
              IF Len(calls') = 1
              THEN IsPrefixOf(calls[1].responseText, calls'[1].responseText)
              ELSE IsPrefixOf(calls[1].responseText, last'.responseText)]_vars

\* Two deltas arrived: the element shows "AB" while the loop waits.
DisplayWitness ==
    /\ Len(calls) = 1
    /\ calls[1].pc = "read"
    /\ Len(calls[1].processed) = 2
    /\ calls[1].responseText = Str("AB")
    /\ chatMessages[calls[1].el].text = Str("AB")

(***************************************************************************)
(* History.                                                                *)
(***************************************************************************)

\* C17: history is append-only: every step leaves the history before it as
\* a prefix of the history after it; a step that issues a request appends
\* the user's turn first, so the request holds the whole history with that
\* turn last; and the history keeps the request of every cycle in flight as
\* a prefix.
HistoryAppendOnly ==
    /\ [][IsPrefixOf(chatHistory, chatHistory')]_vars
    /\ [][fetches' # fetches =>
              /\ chatHistory' = Append(chatHistory, UserTurn(calls'[Len(calls')]))
              /\ calls'[Len(calls')].request.messages = chatHistory']_vars
    /\ [](\A i \in DOMAIN calls :
            /\ calls[i].request.messages = Append(calls[i].before, UserTurn(calls[i]))
            /\ IsPrefixOf(calls[i].request.messages, chatHistory))

\* The request of a second cycle holds the greeting, the first exchange and
\* the new user turn, in order.
HistoryWitness ==
    /\ fetches = 2
    /\ Len(calls) = 1
    /\ calls[1].pc = "fetch"
    /\ Len(calls[1].request.messages) = 4
    /\ calls[1].request.messages[3].role = "assistant"
    /\ calls[1].request.messages[4] = [role |-> "user", content |-> Str("hi")]

(***************************************************************************)
(* What is stripped from a data line.                                      *)
(***************************************************************************)

\* A data line without its prefix and without one space after the prefix,
\* if there is one; rest is the line after the prefix.
WithoutOneSpace(rest) ==
    IF Len(rest) >= 1 /\ rest[1] = Space THEN SubSeq(rest, 2, Len(rest)) ELSE rest
OneSpaceContent(l) == WithoutOneSpace(SubSeq(l, 6, Len(l)))

RECURSIVE OneSpaceContentsOf(_)
OneSpaceContentsOf(lines) ==
    IF Len(lines) = 0 THEN <<>>
    ELSE (IF IsDataLine(lines[1]) THEN <<OneSpaceContent(lines[1])>> ELSE <<>>)
         \o OneSpaceContentsOf(SubSeq(lines, 2, Len(lines)))

RECURSIVE OneSpaceEventsOfBlocks(_)
OneSpaceEventsOfBlocks(blocks) ==
    IF Len(blocks) = 0 THEN <<>>
    ELSE (IF HasDataLine(blocks[1])
          THEN <<NewlineJoined(OneSpaceContentsOf(blocks[1]))>> ELSE <<>>)
         \o OneSpaceEventsOfBlocks(SubSeq(blocks, 2, Len(blocks)))

\* C18: from every data line the framer strips the prefix and exactly one
\* leading space, or nothing when no space follows the prefix, and keeps the
\* rest of the line, further leading spaces and trailing whitespace included:
\* after the framer ran on the text of fblocks, the events are made of the
\* data lines stripped that way.
StripsExactlyOneSpace ==
    fcalls = 1 => fevents = OneSpaceEventsOfBlocks(fblocks)

(***************************************************************************)
(* Line endings.                                                           *)
(***************************************************************************)

\* The first n characters of a text as the same stream sends them with LF
\* line endings: the carriage return of every CR LF pair of the text is
\* left out.
RECURSIVE LfUpTo(_, _)
LfUpTo(text, n) ==
    IF n = 0 THEN <<>>
    ELSE LfUpTo(text, n - 1)
         \o (IF n < Len(text) /\ SubSeq(text, n, n + 1) = Str("\r\n")
             THEN <<>> ELSE SubSeq(text, n, n))

\* C19: carriage returns are stripped before scanning.  Whatever part of a
\* text has been fed to the framer, in whatever chunks, the events so far and
\* the remainder are those of one call on the same part of the stream sent
\* with LF line endings, also when the last chunk ended between a carriage
\* return and its newline.
CrLfSameAsLf ==
    fcalls >= 1 => SameAsOneCall(consumeSseEvents(LfUpTo(ftext, fpos)))

\* After an event ended by CR LF CR LF, a chunk ended between the carriage
\* return and the newline of the next line.
CrLfWitness ==
    /\ fcalls >= 2
    /\ fpos < Len(ftext)
    /\ SubSeq(ftext, fpos, fpos + 1) = Str("\r\n")
    /\ fevents = <<Str("y")>>
    /\ fbuf = Str("data:y")

\* A cycle that failed, or ended cleanly without text.
WithoutReply(c) == Failed(c) \/ (Clean(c) /\ c.responseText = <<>>)

\* C20: the user's turn stays in history whatever the outcome.  After a
\* cycle that failed or ended without text the history ends with that cycle's
\* user turn, and the request of the next accepted submit ends with two user
\* turns in a row: that turn and the new one.
UserTurnStays ==
    /\ [](WithoutReply(last) =>
            /\ Len(chatHistory) = Len(last.before) + 1
            /\ chatHistory[Len(chatHistory)] = UserTurn(last))
    /\ [][(fetches' # fetches /\ WithoutReply(last)) =>
              /\ Len(calls'[1].request.messages) = Len(chatHistory) + 1
              /\ calls'[1].request.messages[Len(chatHistory)] = UserTurn(last)
              /\ calls'[1].request.messages[Len(chatHistory) + 1].role = "user"]_vars

\* After a first cycle that failed on the network, the request of the second
\* holds the greeting and two user turns in a row.
UserTurnStaysWitness ==
    /\ fetches = 2
    /\ Len(calls) = 1
    /\ Len(calls[1].request.messages) = 3
    /\ calls[1].request.messages[2].role = "user"
    /\ calls[1].request.messages[3].role = "user"

====
